---- MODULE Spec2Model ----
(***************************************************************************)
(* Model of the satellite-wind BUFR tank extractors of                     *)
(* python_bufr/process_satwnds_dependencies.py: one extraction call        *)
(* process_NC0050xx(bufrFileName, returnDict) per tank variant, with its   *)
(* pre_qc screen, its unpacking of packed fields and its observation-type  *)
(* assignment.                                                             *)
(*                                                                         *)
(* Numbers.  The source works on floats; the model keeps exact decimals as *)
(* scaled integers: pressure in Pa, zenith angle in degrees, quality       *)
(* indicator as its 0-100 index, wind speed and coefficient of variation   *)
(* in hundredths (0.1 m/s is 10, 0.04 is 4, 0.50 is 50), the packed        *)
(* expected error as its raw integer.  The quotient of the exp-errnorm     *)
(* check is kept as a fraction [num, den], den > 0:                        *)
(*   (10 - 0.1*exp) / spd  =  10*(100 - exp) / (100*spd),                  *)
(* and  e <= 0.9  is  10 * e.num <= 9 * e.den.                             *)
(* Indices are 0-based as in numpy: index i of a vector v is v[i+1].       *)
(* Query paths are written without the leading "<tank>/".                  *)
(***************************************************************************)
EXTENDS Integers, Sequences, FiniteSets, TLC

VARIABLES
    \* one extraction call process_NC0050xx(bufrFileName, returnDict)
    pc, tankName, returnDict, file, qc, idxPass, idxFail, outputDict, queries, error,
    \* the run of extract_bulk_stats.py: its tank list, the position in it, and
    \* the aggregate arrays
    tankNameList, tankIdx,
    obLat, obLon, obPre, obSpd, obDir, obYr, obMon, obDay, obHr, obMin, obTyp, obPQC,
    \* history of the run: one entry per finished iteration of the tank loop
    log,
    \* what the end of the run puts out: the report lines and the netCDF file
    reported, nc_out

callVars == <<pc, tankName, returnDict, file, qc, idxPass, idxFail, outputDict, queries, error>>

aggVars == <<obLat, obLon, obPre, obSpd, obDir, obYr, obMon, obDay, obHr, obMin, obTyp, obPQC>>

runVars == <<tankNameList, tankIdx, aggVars, log, reported, nc_out>>

vars == <<callVars, runVars>>

---------------------------------------------------------------------------
(* Bounds of the model *)

\* observations in one decoded tank
MaxObs == 2

\* largest wind-computation-method code the decoder delivers
MaxWcm == 5

---------------------------------------------------------------------------
(* numpy helpers *)

\* np.arange(n) as a set of indices
arange(n) == 0 .. (n - 1)

\* np.size of a 1-D vector
size(v) == Len(v)

\* np.where(cond(v)) for an elementwise condition: the indices of v that satisfy it
where(v, cond(_)) == {i \in arange(Len(v)) : cond(v[i + 1])}

\* np.nan, a value the decoder may hold where a measurement is missing.  The
\* model keeps it as a number no measurement takes
NaN == -999

\* a >= b, a <= b, a > b on floats: a comparison with NaN is False
ge(a, b) == a # NaN /\ b # NaN /\ a >= b

le(a, b) == a # NaN /\ b # NaN /\ a <= b

gt(a, b) == a # NaN /\ b # NaN /\ a > b

\* np.setdiff1d(a, b) on index arrays
setdiff1d(a, b) == a \ b

\* np.append(a, x) for 1-D vectors
append(a, x) == a \o x

\* c * np.ones((n,))
ones(n, c) == [k \in 1 .. n |-> c]

\* x[:,i].squeeze(): column i (0-based) of an (N,k) array kept as a sequence of tuples
Col(x, i) == [k \in 1 .. Len(x) |-> x[k][i + 1]]

\* np.unique(v) as the set of distinct values
unique(v) == {v[k] : k \in 1 .. Len(v)}

---------------------------------------------------------------------------
(* python dict helpers: a dict is a sequence of <<key, value>> pairs in *)
(* insertion order, with distinct keys                                  *)

values(d) == {d[k][2] : k \in 1 .. Len(d)}

HasKey(d, key) == \E k \in 1 .. Len(d) : d[k][1] = key

\* d[key] = val: replaces the value in place, or appends a new pair
SetItem(d, key, val) ==
    IF HasKey(d, key)
    THEN [k \in 1 .. Len(d) |-> IF d[k][1] = key THEN <<key, val>> ELSE d[k]]
    ELSE Append(d, <<key, val>>)

RECURSIVE update(_, _)
\* d.update(u)
update(d, u) ==
    IF u = <<>> THEN d
    ELSE update(SetItem(d, Head(u)[1], Head(u)[2]), Tail(u))

\* mergedDict = returnDict.copy(); mergedDict.update(queryDict)
MergedDict(rd, queryDict) == update(rd, queryDict)

---------------------------------------------------------------------------
(* The decoding collaborator.  A decoded tank is a sequence of observation *)
(* rows; resultSet.get(name) returns the column the name stands for.  The  *)
(* code asks by variable name, never by query path, so two paths that name *)
(* the same variable get the same array.  A field the extractor does not   *)
(* screen on is a plain (N,) vector; the model lets it carry the row       *)
(* number, so that a row of the batch can be traced to its observation.    *)

\* 1.0E+10, the missing value of the dynamic column resolution.  TLC's integers
\* are 32-bit: the model keeps the largest power of ten they hold, which like
\* the original lies above every quality-indicator threshold and is not zero.
missingValue == 1000000000

\* the generatingApplication code that marks the QI without forecast
qifnTag == 102

resultSet_get(f, name) ==
    CASE name = "pressure"               -> [k \in 1 .. Len(f) |-> f[k].pre]
      [] name = "windSpeed"              -> [k \in 1 .. Len(f) |-> f[k].spd]
      [] name = "zenithAngle"            -> [k \in 1 .. Len(f) |-> f[k].zen]
      [] name = "windComputationMethod"  -> [k \in 1 .. Len(f) |-> f[k].wcm]
      [] name = "QIEE"                   -> [k \in 1 .. Len(f) |-> f[k].pccf]
      [] name = "qualityIndicator"       -> [k \in 1 .. Len(f) |-> f[k].pccf]
      [] name = "coefficientOfVariation" -> [k \in 1 .. Len(f) |-> f[k].cvwd]
      [] name = "generatingApplication"  -> [k \in 1 .. Len(f) |-> f[k].gnap]
      [] OTHER                           -> [k \in 1 .. Len(f) |-> k - 1]

---------------------------------------------------------------------------
(* The Quality Screen: one pre_qc per tank variant, as in the source.  A   *)
(* pre_qc returns [raised, idxPass, idxFail]; raised stands for the        *)
(* IndexError of numpy when an index vector reaches past the end of the    *)
(* vector it indexes.                                                      *)

pre_qc_NC005030(pre, spd, zen, qin, cov, exp) ==
    LET idxAll == arange(size(pre))
        \* zenith angle check
        angMax == 68
        zenPass == where(zen, LAMBDA z : le(z, angMax))
        zenFail == setdiff1d(idxAll, zenPass)
        idxPass1 == setdiff1d(idxAll, zenFail)
        \* quality indicator check
        qiMin == 90
        qiMax == 100
        qinPass == where(qin, LAMBDA q : ge(q, qiMin) /\ le(q, qiMax))
        qinFail == setdiff1d(idxAll, qinPass)
        idxPass2 == setdiff1d(idxPass1, qinFail)
        \* pressure check
        preMin == 15000
        prePass == where(pre, LAMBDA p : ge(p, preMin))
        preFail == setdiff1d(idxAll, prePass)
        idxPass3 == setdiff1d(idxPass2, preFail)
        \* coefficient of variation check
        covMin == 4
        covMax == 50
        covPass == where(cov, LAMBDA c : ge(c, covMin) /\ le(c, covMax))
        covFail == setdiff1d(idxAll, covPass)
        idxPass4 == setdiff1d(idxPass3, covFail)
        \* exp-errnorm check
        speedExists == where(spd, LAMBDA s : gt(s, 10))
        raised == \E i \in speedExists : i >= size(exp)
        expErrNorm == [k \in 1 .. size(exp) |->
                          IF (k - 1) \in speedExists
                          THEN (IF exp[k] = NaN THEN [num |-> NaN, den |-> 1]
                                ELSE [num |-> 10 * (100 - exp[k]), den |-> spd[k]])
                          ELSE [num |-> 100, den |-> 1]]
        eePass == where(expErrNorm, LAMBDA e : e.num # NaN /\ 10 * e.num <= 9 * e.den)
        eeFail == setdiff1d(idxAll, eePass)
        idxPass5 == setdiff1d(idxPass4, eeFail)
    IN  IF raised
        THEN [raised |-> TRUE, idxPass |-> {}, idxFail |-> {}]
        ELSE [raised |-> FALSE, idxPass |-> idxPass5,
              idxFail |-> setdiff1d(idxAll, idxPass5)]

\* pre_qc_NC005031 with the quotient taken at every positive speed
pre_qc_NC005031_noSpeedFloor(pre, spd, zen, qin, exp) ==
    LET idxAll == arange(size(pre))
        \* zenith angle check
        angMax == 68
        zenPass == where(zen, LAMBDA z : le(z, angMax))
        zenFail == setdiff1d(idxAll, zenPass)
        idxPass1 == setdiff1d(idxAll, zenFail)
        \* quality indicator check
        qiMin == 90
        qiMax == 100
        qinPass == where(qin, LAMBDA q : ge(q, qiMin) /\ le(q, qiMax))
        qinFail == setdiff1d(idxAll, qinPass)
        idxPass2 == setdiff1d(idxPass1, qinFail)
        \* pressure check
        preMin == 15000
        prePass == where(pre, LAMBDA p : ge(p, preMin))
        preFail == setdiff1d(idxAll, prePass)
        idxPass3 == setdiff1d(idxPass2, preFail)
        idxPass4 == idxPass3
        \* exp-errnorm check
        speedExists == where(spd, LAMBDA s : gt(s, 0))
        raised == \E i \in speedExists : i >= size(exp)
        expErrNorm == [k \in 1 .. size(exp) |->
                          IF (k - 1) \in speedExists
                          THEN (IF exp[k] = NaN THEN [num |-> NaN, den |-> 1]
                                ELSE [num |-> 10 * (100 - exp[k]), den |-> spd[k]])
                          ELSE [num |-> 100, den |-> 1]]
        eePass == where(expErrNorm, LAMBDA e : e.num # NaN /\ 10 * e.num <= 9 * e.den)
        eeFail == setdiff1d(idxAll, eePass)
        idxPass5 == setdiff1d(idxPass4, eeFail)
    IN  IF raised
        THEN [raised |-> TRUE, idxPass |-> {}, idxFail |-> {}]
        ELSE [raised |-> FALSE, idxPass |-> idxPass5,
              idxFail |-> setdiff1d(idxAll, idxPass5)]

pre_qc_NC005031(pre, spd, zen, qin, exp) ==
    LET idxAll == arange(size(pre))
        \* zenith angle check
        angMax == 68
        zenPass == where(zen, LAMBDA z : le(z, angMax))
        zenFail == setdiff1d(idxAll, zenPass)
        idxPass1 == setdiff1d(idxAll, zenFail)
        \* quality indicator check
        qiMin == 90
        qiMax == 100
        qinPass == where(qin, LAMBDA q : ge(q, qiMin) /\ le(q, qiMax))
        qinFail == setdiff1d(idxAll, qinPass)
        idxPass2 == setdiff1d(idxPass1, qinFail)
        \* pressure check
        preMin == 15000
        prePass == where(pre, LAMBDA p : ge(p, preMin))
        preFail == setdiff1d(idxAll, prePass)
        idxPass3 == setdiff1d(idxPass2, preFail)
        idxPass4 == idxPass3
        \* exp-errnorm check
        speedExists == where(spd, LAMBDA s : gt(s, 10))
        raised == \E i \in speedExists : i >= size(exp)
        expErrNorm == [k \in 1 .. size(exp) |->
                          IF (k - 1) \in speedExists
                          THEN (IF exp[k] = NaN THEN [num |-> NaN, den |-> 1]
                                ELSE [num |-> 10 * (100 - exp[k]), den |-> spd[k]])
                          ELSE [num |-> 100, den |-> 1]]
        eePass == where(expErrNorm, LAMBDA e : e.num # NaN /\ 10 * e.num <= 9 * e.den)
        eeFail == setdiff1d(idxAll, eePass)
        idxPass5 == setdiff1d(idxPass4, eeFail)
    IN  IF raised
        THEN [raised |-> TRUE, idxPass |-> {}, idxFail |-> {}]
        ELSE [raised |-> FALSE, idxPass |-> idxPass5,
              idxFail |-> setdiff1d(idxAll, idxPass5)]

\* pre_qc_NC005032 with the bounds of the variation check exclusive
pre_qc_NC005032_strictVariation(pre, spd, zen, qin, cov, exp) ==
    LET idxAll == arange(size(pre))
        \* zenith angle check
        angMax == 68
        zenPass == where(zen, LAMBDA z : le(z, angMax))
        zenFail == setdiff1d(idxAll, zenPass)
        idxPass1 == setdiff1d(idxAll, zenFail)
        \* quality indicator check
        qiMin == 90
        qiMax == 100
        qinPass == where(qin, LAMBDA q : ge(q, qiMin) /\ le(q, qiMax))
        qinFail == setdiff1d(idxAll, qinPass)
        idxPass2 == setdiff1d(idxPass1, qinFail)
        \* pressure check
        preMin == 70000
        prePass == where(pre, LAMBDA p : ge(p, preMin))
        preFail == setdiff1d(idxAll, prePass)
        idxPass3 == setdiff1d(idxPass2, preFail)
        \* coefficient of variation check
        covMin == 4
        covMax == 50
        covPass == where(cov, LAMBDA c : gt(c, covMin) /\ gt(covMax, c))
        covFail == setdiff1d(idxAll, covPass)
        idxPass4 == setdiff1d(idxPass3, covFail)
        \* exp-errnorm check
        speedExists == where(spd, LAMBDA s : gt(s, 10))
        raised == \E i \in speedExists : i >= size(exp)
        expErrNorm == [k \in 1 .. size(exp) |->
                          IF (k - 1) \in speedExists
                          THEN (IF exp[k] = NaN THEN [num |-> NaN, den |-> 1]
                                ELSE [num |-> 10 * (100 - exp[k]), den |-> spd[k]])
                          ELSE [num |-> 100, den |-> 1]]
        eePass == where(expErrNorm, LAMBDA e : e.num # NaN /\ 10 * e.num <= 9 * e.den)
        eeFail == setdiff1d(idxAll, eePass)
        idxPass5 == setdiff1d(idxPass4, eeFail)
    IN  IF raised
        THEN [raised |-> TRUE, idxPass |-> {}, idxFail |-> {}]
        ELSE [raised |-> FALSE, idxPass |-> idxPass5,
              idxFail |-> setdiff1d(idxAll, idxPass5)]

pre_qc_NC005032(pre, spd, zen, qin, cov, exp) ==
    LET idxAll == arange(size(pre))
        \* zenith angle check
        angMax == 68
        zenPass == where(zen, LAMBDA z : le(z, angMax))
        zenFail == setdiff1d(idxAll, zenPass)
        idxPass1 == setdiff1d(idxAll, zenFail)
        \* quality indicator check
        qiMin == 90
        qiMax == 100
        qinPass == where(qin, LAMBDA q : ge(q, qiMin) /\ le(q, qiMax))
        qinFail == setdiff1d(idxAll, qinPass)
        idxPass2 == setdiff1d(idxPass1, qinFail)
        \* pressure check
        preMin == 70000
        prePass == where(pre, LAMBDA p : ge(p, preMin))
        preFail == setdiff1d(idxAll, prePass)
        idxPass3 == setdiff1d(idxPass2, preFail)
        \* coefficient of variation check
        covMin == 4
        covMax == 50
        covPass == where(cov, LAMBDA c : ge(c, covMin) /\ le(c, covMax))
        covFail == setdiff1d(idxAll, covPass)
        idxPass4 == setdiff1d(idxPass3, covFail)
        \* exp-errnorm check
        speedExists == where(spd, LAMBDA s : gt(s, 10))
        raised == \E i \in speedExists : i >= size(exp)
        expErrNorm == [k \in 1 .. size(exp) |->
                          IF (k - 1) \in speedExists
                          THEN (IF exp[k] = NaN THEN [num |-> NaN, den |-> 1]
                                ELSE [num |-> 10 * (100 - exp[k]), den |-> spd[k]])
                          ELSE [num |-> 100, den |-> 1]]
        eePass == where(expErrNorm, LAMBDA e : e.num # NaN /\ 10 * e.num <= 9 * e.den)
        eeFail == setdiff1d(idxAll, eePass)
        idxPass5 == setdiff1d(idxPass4, eeFail)
    IN  IF raised
        THEN [raised |-> TRUE, idxPass |-> {}, idxFail |-> {}]
        ELSE [raised |-> FALSE, idxPass |-> idxPass5,
              idxFail |-> setdiff1d(idxAll, idxPass5)]

\* pre_qc_NC005034 with the pressure check of the other GOES tanks
pre_qc_NC005034_noCeiling(pre, spd, zen, qin, cov, exp) ==
    LET idxAll == arange(size(pre))
        \* zenith angle check
        angMax == 68
        zenPass == where(zen, LAMBDA z : le(z, angMax))
        zenFail == setdiff1d(idxAll, zenPass)
        idxPass1 == setdiff1d(idxAll, zenFail)
        \* quality indicator check
        qiMin == 90
        qiMax == 100
        qinPass == where(qin, LAMBDA q : ge(q, qiMin) /\ le(q, qiMax))
        qinFail == setdiff1d(idxAll, qinPass)
        idxPass2 == setdiff1d(idxPass1, qinFail)
        \* pressure check
        preMin == 15000
        preMax == 30000
        prePass == where(pre, LAMBDA p : ge(p, preMin))
        preFail == setdiff1d(idxAll, prePass)
        idxPass3 == setdiff1d(idxPass2, preFail)
        \* coefficient of variation check
        covMin == 4
        covMax == 50
        covPass == where(cov, LAMBDA c : ge(c, covMin) /\ le(c, covMax))
        covFail == setdiff1d(idxAll, covPass)
        idxPass4 == setdiff1d(idxPass3, covFail)
        \* exp-errnorm check
        speedExists == where(spd, LAMBDA s : gt(s, 10))
        raised == \E i \in speedExists : i >= size(exp)
        expErrNorm == [k \in 1 .. size(exp) |->
                          IF (k - 1) \in speedExists
                          THEN (IF exp[k] = NaN THEN [num |-> NaN, den |-> 1]
                                ELSE [num |-> 10 * (100 - exp[k]), den |-> spd[k]])
                          ELSE [num |-> 100, den |-> 1]]
        eePass == where(expErrNorm, LAMBDA e : e.num # NaN /\ 10 * e.num <= 9 * e.den)
        eeFail == setdiff1d(idxAll, eePass)
        idxPass5 == setdiff1d(idxPass4, eeFail)
    IN  IF raised
        THEN [raised |-> TRUE, idxPass |-> {}, idxFail |-> {}]
        ELSE [raised |-> FALSE, idxPass |-> idxPass5,
              idxFail |-> setdiff1d(idxAll, idxPass5)]

pre_qc_NC005034(pre, spd, zen, qin, cov, exp) ==
    LET idxAll == arange(size(pre))
        \* zenith angle check
        angMax == 68
        zenPass == where(zen, LAMBDA z : le(z, angMax))
        zenFail == setdiff1d(idxAll, zenPass)
        idxPass1 == setdiff1d(idxAll, zenFail)
        \* quality indicator check
        qiMin == 90
        qiMax == 100
        qinPass == where(qin, LAMBDA q : ge(q, qiMin) /\ le(q, qiMax))
        qinFail == setdiff1d(idxAll, qinPass)
        idxPass2 == setdiff1d(idxPass1, qinFail)
        \* pressure check
        preMin == 15000
        preMax == 30000
        prePass == where(pre, LAMBDA p : ge(p, preMin) /\ le(p, preMax))
        preFail == setdiff1d(idxAll, prePass)
        idxPass3 == setdiff1d(idxPass2, preFail)
        \* coefficient of variation check
        covMin == 4
        covMax == 50
        covPass == where(cov, LAMBDA c : ge(c, covMin) /\ le(c, covMax))
        covFail == setdiff1d(idxAll, covPass)
        idxPass4 == setdiff1d(idxPass3, covFail)
        \* exp-errnorm check
        speedExists == where(spd, LAMBDA s : gt(s, 10))
        raised == \E i \in speedExists : i >= size(exp)
        expErrNorm == [k \in 1 .. size(exp) |->
                          IF (k - 1) \in speedExists
                          THEN (IF exp[k] = NaN THEN [num |-> NaN, den |-> 1]
                                ELSE [num |-> 10 * (100 - exp[k]), den |-> spd[k]])
                          ELSE [num |-> 100, den |-> 1]]
        eePass == where(expErrNorm, LAMBDA e : e.num # NaN /\ 10 * e.num <= 9 * e.den)
        eeFail == setdiff1d(idxAll, eePass)
        idxPass5 == setdiff1d(idxPass4, eeFail)
    IN  IF raised
        THEN [raised |-> TRUE, idxPass |-> {}, idxFail |-> {}]
        ELSE [raised |-> FALSE, idxPass |-> idxPass5,
              idxFail |-> setdiff1d(idxAll, idxPass5)]

\* pre_qc_NC005039 with the failures of the quality check found by testing for a
\* value out of range, not as the complement of the passes
pre_qc_NC005039_failByTest(pre, spd, zen, qin, cov, exp) ==
    LET idxAll == arange(size(pre))
        \* zenith angle check
        angMax == 68
        zenPass == where(zen, LAMBDA z : le(z, angMax))
        zenFail == setdiff1d(idxAll, zenPass)
        idxPass1 == setdiff1d(idxAll, zenFail)
        \* quality indicator check
        qiMin == 90
        qiMax == 100
        qinPass == where(qin, LAMBDA q : ge(q, qiMin) /\ le(q, qiMax))
        qinFail == where(qin, LAMBDA q : gt(qiMin, q) \/ gt(q, qiMax))
        idxPass2 == setdiff1d(idxPass1, qinFail)
        \* pressure check
        preMin == 15000
        prePass == where(pre, LAMBDA p : ge(p, preMin))
        preFail == setdiff1d(idxAll, prePass)
        idxPass3 == setdiff1d(idxPass2, preFail)
        \* coefficient of variation check
        covMin == 4
        covMax == 50
        covPass == where(cov, LAMBDA c : ge(c, covMin) /\ le(c, covMax))
        covFail == setdiff1d(idxAll, covPass)
        idxPass4 == setdiff1d(idxPass3, covFail)
        \* exp-errnorm check
        speedExists == where(spd, LAMBDA s : gt(s, 10))
        raised == \E i \in speedExists : i >= size(exp)
        expErrNorm == [k \in 1 .. size(exp) |->
                          IF (k - 1) \in speedExists
                          THEN (IF exp[k] = NaN THEN [num |-> NaN, den |-> 1]
                                ELSE [num |-> 10 * (100 - exp[k]), den |-> spd[k]])
                          ELSE [num |-> 100, den |-> 1]]
        eePass == where(expErrNorm, LAMBDA e : e.num # NaN /\ 10 * e.num <= 9 * e.den)
        eeFail == setdiff1d(idxAll, eePass)
        idxPass5 == setdiff1d(idxPass4, eeFail)
    IN  IF raised
        THEN [raised |-> TRUE, idxPass |-> {}, idxFail |-> {}]
        ELSE [raised |-> FALSE, idxPass |-> idxPass5,
              idxFail |-> setdiff1d(idxAll, idxPass5)]

pre_qc_NC005039(pre, spd, zen, qin, cov, exp) ==
    LET idxAll == arange(size(pre))
        \* zenith angle check
        angMax == 68
        zenPass == where(zen, LAMBDA z : le(z, angMax))
        zenFail == setdiff1d(idxAll, zenPass)
        idxPass1 == setdiff1d(idxAll, zenFail)
        \* quality indicator check
        qiMin == 90
        qiMax == 100
        qinPass == where(qin, LAMBDA q : ge(q, qiMin) /\ le(q, qiMax))
        qinFail == setdiff1d(idxAll, qinPass)
        idxPass2 == setdiff1d(idxPass1, qinFail)
        \* pressure check
        preMin == 15000
        prePass == where(pre, LAMBDA p : ge(p, preMin))
        preFail == setdiff1d(idxAll, prePass)
        idxPass3 == setdiff1d(idxPass2, preFail)
        \* coefficient of variation check
        covMin == 4
        covMax == 50
        covPass == where(cov, LAMBDA c : ge(c, covMin) /\ le(c, covMax))
        covFail == setdiff1d(idxAll, covPass)
        idxPass4 == setdiff1d(idxPass3, covFail)
        \* exp-errnorm check
        speedExists == where(spd, LAMBDA s : gt(s, 10))
        raised == \E i \in speedExists : i >= size(exp)
        expErrNorm == [k \in 1 .. size(exp) |->
                          IF (k - 1) \in speedExists
                          THEN (IF exp[k] = NaN THEN [num |-> NaN, den |-> 1]
                                ELSE [num |-> 10 * (100 - exp[k]), den |-> spd[k]])
                          ELSE [num |-> 100, den |-> 1]]
        eePass == where(expErrNorm, LAMBDA e : e.num # NaN /\ 10 * e.num <= 9 * e.den)
        eeFail == setdiff1d(idxAll, eePass)
        idxPass5 == setdiff1d(idxPass4, eeFail)
    IN  IF raised
        THEN [raised |-> TRUE, idxPass |-> {}, idxFail |-> {}]
        ELSE [raised |-> FALSE, idxPass |-> idxPass5,
              idxFail |-> setdiff1d(idxAll, idxPass5)]

\* pre_qc_NC005044 with the last check overwriting the earlier ones
pre_qc_NC005044_lastCheckOnly(zen, qin, wcm) ==
    LET idxAll == arange(size(zen))
        \* zenith angle check
        angMax == 68
        zenPass == where(zen, LAMBDA z : le(z, angMax))
        zenFail == setdiff1d(idxAll, zenPass)
        idxPass1 == setdiff1d(idxAll, zenFail)
        \* quality indicator check
        qiMin == 85
        qiMax == 100
        qinPass == where(qin, LAMBDA q : ge(q, qiMin) /\ le(q, qiMax))
        qinFail == setdiff1d(idxAll, qinPass)
        idxPass2 == setdiff1d(idxPass1, qinFail)
        \* wind computation method check
        wcmExcludeList == {5}
        wcmPass == where(wcm, LAMBDA m : (m \in wcmExcludeList) = FALSE)
        wcmFail == setdiff1d(idxAll, wcmPass)
        idxPass3 == setdiff1d(idxAll, wcmFail)
    IN  [raised |-> FALSE, idxPass |-> idxPass3,
         idxFail |-> setdiff1d(idxAll, idxPass3)]

pre_qc_NC005044(zen, qin, wcm) ==
    LET idxAll == arange(size(zen))
        \* zenith angle check
        angMax == 68
        zenPass == where(zen, LAMBDA z : le(z, angMax))
        zenFail == setdiff1d(idxAll, zenPass)
        idxPass1 == setdiff1d(idxAll, zenFail)
        \* quality indicator check
        qiMin == 85
        qiMax == 100
        qinPass == where(qin, LAMBDA q : ge(q, qiMin) /\ le(q, qiMax))
        qinFail == setdiff1d(idxAll, qinPass)
        idxPass2 == setdiff1d(idxPass1, qinFail)
        \* wind computation method check
        wcmExcludeList == {5}
        wcmPass == where(wcm, LAMBDA m : (m \in wcmExcludeList) = FALSE)
        wcmFail == setdiff1d(idxAll, wcmPass)
        idxPass3 == setdiff1d(idxPass2, wcmFail)
    IN  [raised |-> FALSE, idxPass |-> idxPass3,
         idxFail |-> setdiff1d(idxAll, idxPass3)]

\* pre_qc_NC005045 with the quality floor of the GOES tanks
pre_qc_NC005045_qiMin90(zen, qin, wcm) ==
    LET idxAll == arange(size(zen))
        \* zenith angle check
        angMax == 68
        zenPass == where(zen, LAMBDA z : le(z, angMax))
        zenFail == setdiff1d(idxAll, zenPass)
        idxPass1 == setdiff1d(idxAll, zenFail)
        \* quality indicator check
        qiMin == 90
        qiMax == 100
        qinPass == where(qin, LAMBDA q : ge(q, qiMin) /\ le(q, qiMax))
        qinFail == setdiff1d(idxAll, qinPass)
        idxPass2 == setdiff1d(idxPass1, qinFail)
        \* wind computation method check
        wcmExcludeList == {5}
        wcmPass == where(wcm, LAMBDA m : (m \in wcmExcludeList) = FALSE)
        wcmFail == setdiff1d(idxAll, wcmPass)
        idxPass3 == setdiff1d(idxPass2, wcmFail)
    IN  [raised |-> FALSE, idxPass |-> idxPass3,
         idxFail |-> setdiff1d(idxAll, idxPass3)]

pre_qc_NC005045(zen, qin, wcm) ==
    LET idxAll == arange(size(zen))
        \* zenith angle check
        angMax == 68
        zenPass == where(zen, LAMBDA z : le(z, angMax))
        zenFail == setdiff1d(idxAll, zenPass)
        idxPass1 == setdiff1d(idxAll, zenFail)
        \* quality indicator check
        qiMin == 85
        qiMax == 100
        qinPass == where(qin, LAMBDA q : ge(q, qiMin) /\ le(q, qiMax))
        qinFail == setdiff1d(idxAll, qinPass)
        idxPass2 == setdiff1d(idxPass1, qinFail)
        \* wind computation method check
        wcmExcludeList == {5}
        wcmPass == where(wcm, LAMBDA m : (m \in wcmExcludeList) = FALSE)
        wcmFail == setdiff1d(idxAll, wcmPass)
        idxPass3 == setdiff1d(idxPass2, wcmFail)
    IN  [raised |-> FALSE, idxPass |-> idxPass3,
         idxFail |-> setdiff1d(idxAll, idxPass3)]

\* pre_qc_NC005046 with a zenith bound of its own
pre_qc_NC005046_angMax70(zen, qin, wcm) ==
    LET idxAll == arange(size(zen))
        \* zenith angle check
        angMax == 70
        zenPass == where(zen, LAMBDA z : le(z, angMax))
        zenFail == setdiff1d(idxAll, zenPass)
        idxPass1 == setdiff1d(idxAll, zenFail)
        \* quality indicator check
        qiMin == 85
        qiMax == 100
        qinPass == where(qin, LAMBDA q : ge(q, qiMin) /\ le(q, qiMax))
        qinFail == setdiff1d(idxAll, qinPass)
        idxPass2 == setdiff1d(idxPass1, qinFail)
        \* wind computation method check
        wcmExcludeList == {5}
        wcmPass == where(wcm, LAMBDA m : (m \in wcmExcludeList) = FALSE)
        wcmFail == setdiff1d(idxAll, wcmPass)
        idxPass3 == setdiff1d(idxPass2, wcmFail)
    IN  [raised |-> FALSE, idxPass |-> idxPass3,
         idxFail |-> setdiff1d(idxAll, idxPass3)]

pre_qc_NC005046(zen, qin, wcm) ==
    LET idxAll == arange(size(zen))
        \* zenith angle check
        angMax == 68
        zenPass == where(zen, LAMBDA z : le(z, angMax))
        zenFail == setdiff1d(idxAll, zenPass)
        idxPass1 == setdiff1d(idxAll, zenFail)
        \* quality indicator check
        qiMin == 85
        qiMax == 100
        qinPass == where(qin, LAMBDA q : ge(q, qiMin) /\ le(q, qiMax))
        qinFail == setdiff1d(idxAll, qinPass)
        idxPass2 == setdiff1d(idxPass1, qinFail)
        \* wind computation method check
        wcmExcludeList == {5}
        wcmPass == where(wcm, LAMBDA m : (m \in wcmExcludeList) = FALSE)
        wcmFail == setdiff1d(idxAll, wcmPass)
        idxPass3 == setdiff1d(idxPass2, wcmFail)
    IN  [raised |-> FALSE, idxPass |-> idxPass3,
         idxFail |-> setdiff1d(idxAll, idxPass3)]

\* pre_qc_NC005067 with the zenith bound exclusive
pre_qc_NC005067_strictZenith(zen, qin, wcm) ==
    LET idxAll == arange(size(zen))
        \* zenith angle check
        angMax == 68
        zenPass == where(zen, LAMBDA z : gt(angMax, z))
        zenFail == setdiff1d(idxAll, zenPass)
        idxPass1 == setdiff1d(idxAll, zenFail)
        \* quality indicator check
        qiMin == 85
        qiMax == 100
        qinPass == where(qin, LAMBDA q : ge(q, qiMin) /\ le(q, qiMax))
        qinFail == setdiff1d(idxAll, qinPass)
        idxPass2 == setdiff1d(idxPass1, qinFail)
        \* wind computation method check
        wcmExcludeList == {5}
        wcmPass == where(wcm, LAMBDA m : (m \in wcmExcludeList) = FALSE)
        wcmFail == setdiff1d(idxAll, wcmPass)
        idxPass3 == setdiff1d(idxPass2, wcmFail)
    IN  [raised |-> FALSE, idxPass |-> idxPass3,
         idxFail |-> setdiff1d(idxAll, idxPass3)]

pre_qc_NC005067(zen, qin, wcm) ==
    LET idxAll == arange(size(zen))
        \* zenith angle check
        angMax == 68
        zenPass == where(zen, LAMBDA z : le(z, angMax))
        zenFail == setdiff1d(idxAll, zenPass)
        idxPass1 == setdiff1d(idxAll, zenFail)
        \* quality indicator check
        qiMin == 85
        qiMax == 100
        qinPass == where(qin, LAMBDA q : ge(q, qiMin) /\ le(q, qiMax))
        qinFail == setdiff1d(idxAll, qinPass)
        idxPass2 == setdiff1d(idxPass1, qinFail)
        \* wind computation method check
        wcmExcludeList == {5}
        wcmPass == where(wcm, LAMBDA m : (m \in wcmExcludeList) = FALSE)
        wcmFail == setdiff1d(idxAll, wcmPass)
        idxPass3 == setdiff1d(idxPass2, wcmFail)
    IN  [raised |-> FALSE, idxPass |-> idxPass3,
         idxFail |-> setdiff1d(idxAll, idxPass3)]

\* pre_qc_NC005068 with method code 4 excluded as well
pre_qc_NC005068_excludes4(zen, qin, wcm) ==
    LET idxAll == arange(size(zen))
        \* zenith angle check
        angMax == 68
        zenPass == where(zen, LAMBDA z : le(z, angMax))
        zenFail == setdiff1d(idxAll, zenPass)
        idxPass1 == setdiff1d(idxAll, zenFail)
        \* quality indicator check
        qiMin == 85
        qiMax == 100
        qinPass == where(qin, LAMBDA q : ge(q, qiMin) /\ le(q, qiMax))
        qinFail == setdiff1d(idxAll, qinPass)
        idxPass2 == setdiff1d(idxPass1, qinFail)
        \* wind computation method check
        wcmExcludeList == {4, 5}
        wcmPass == where(wcm, LAMBDA m : (m \in wcmExcludeList) = FALSE)
        wcmFail == setdiff1d(idxAll, wcmPass)
        idxPass3 == setdiff1d(idxPass2, wcmFail)
    IN  [raised |-> FALSE, idxPass |-> idxPass3,
         idxFail |-> setdiff1d(idxAll, idxPass3)]

pre_qc_NC005068(zen, qin, wcm) ==
    LET idxAll == arange(size(zen))
        \* zenith angle check
        angMax == 68
        zenPass == where(zen, LAMBDA z : le(z, angMax))
        zenFail == setdiff1d(idxAll, zenPass)
        idxPass1 == setdiff1d(idxAll, zenFail)
        \* quality indicator check
        qiMin == 85
        qiMax == 100
        qinPass == where(qin, LAMBDA q : ge(q, qiMin) /\ le(q, qiMax))
        qinFail == setdiff1d(idxAll, qinPass)
        idxPass2 == setdiff1d(idxPass1, qinFail)
        \* wind computation method check
        wcmExcludeList == {5}
        wcmPass == where(wcm, LAMBDA m : (m \in wcmExcludeList) = FALSE)
        wcmFail == setdiff1d(idxAll, wcmPass)
        idxPass3 == setdiff1d(idxPass2, wcmFail)
    IN  [raised |-> FALSE, idxPass |-> idxPass3,
         idxFail |-> setdiff1d(idxAll, idxPass3)]

pre_qc_NC005069(zen, qin, wcm) ==
    LET idxAll == arange(size(zen))
        \* zenith angle check
        angMax == 68
        zenPass == where(zen, LAMBDA z : le(z, angMax))
        zenFail == setdiff1d(idxAll, zenPass)
        idxPass1 == setdiff1d(idxAll, zenFail)
        \* quality indicator check
        qiMin == 85
        qiMax == 100
        qinPass == where(qin, LAMBDA q : ge(q, qiMin) /\ le(q, qiMax))
        qinFail == setdiff1d(idxAll, qinPass)
        idxPass2 == setdiff1d(idxPass1, qinFail)
        \* wind computation method check
        wcmExcludeList == {5}
        wcmPass == where(wcm, LAMBDA m : (m \in wcmExcludeList) = FALSE)
        wcmFail == setdiff1d(idxAll, wcmPass)
        idxPass3 == setdiff1d(idxPass2, wcmFail)
    IN  [raised |-> FALSE, idxPass |-> idxPass3,
         idxFail |-> setdiff1d(idxAll, idxPass3)]

---------------------------------------------------------------------------
(* The extraction loop.  The accumulator holds the pre-QC vectors, the     *)
(* outputDict under construction, the number of decoder queries issued,    *)
(* and raised, which stands for the ValueError of `if <array> == 102` on   *)
(* an array of more than one element.                                      *)

\* outputDict = {}; for varName in returnDict.values(): outputDict[varName] = []
EmptyAcc(rd) ==
    [pressure |-> <<>>, windSpeed |-> <<>>, zenithAngle |-> <<>>,
     qualityIndicator |-> <<>>, expectedError |-> <<>>,
     coefficientOfVariation |-> <<>>, windComputationMethod |-> <<>>,
     outputDict |-> [n \in values(rd) |-> <<>>],
     queries |-> 1, raised |-> FALSE]

\* OutAppend without its test of returnDict.values(): every fetched variable
\* becomes a key of the batch
OutAppend_unguarded(od, rd, name, v) ==
    [n \in DOMAIN od \cup {name} |->
        IF n = name THEN append(IF name \in DOMAIN od THEN od[name] ELSE <<>>, v)
        ELSE od[n]]

\* if name in returnDict.values(): outputDict[name] = np.append(outputDict[name], v)
OutAppend(od, rd, name, v) ==
    IF name \in values(rd) THEN [od EXCEPT ![name] = append(@, v)] ELSE od

RECURSIVE ravel(_)
\* np.append flattens an (N,k) array
ravel(x) == IF x = <<>> THEN <<>> ELSE Head(x) \o ravel(Tail(x))

\* the names the decoder answers with an (N,k) array
Packed == {"QIEE", "qualityIndicator", "coefficientOfVariation", "generatingApplication"}

\* the else branch of the loop: a variable with no unpacking
PlainAppend(od, rd, name, x) ==
    OutAppend(od, rd, name, IF name \in Packed THEN ravel(x) ELSE x)

RECURSIVE Loop_NC005030(_, _, _, _, _)
\* GOES tanks with a coefficient of variation (NC005030/32/34/39)
Loop_NC005030(f, rd, mergedDict, k, acc) ==
    IF k > Len(mergedDict) THEN acc
    ELSE
      LET name == mergedDict[k][2]
          x == resultSet_get(f, name)
          next ==
            CASE name = "pressure" ->
                   [acc EXCEPT !.pressure = append(@, x),
                               !.outputDict = OutAppend(@, rd, "pressure", x)]
              [] name = "windSpeed" ->
                   [acc EXCEPT !.windSpeed = append(@, x),
                               !.outputDict = OutAppend(@, rd, "windSpeed", x)]
              [] name = "zenithAngle" ->
                   [acc EXCEPT !.zenithAngle = append(@, x),
                               !.outputDict = OutAppend(@, rd, "zenithAngle", x)]
              [] name = "QIEE" ->
                   [acc EXCEPT !.qualityIndicator = append(@, Col(x, 1)),
                               !.expectedError = append(@, Col(x, 3)),
                               !.outputDict =
                                   OutAppend(OutAppend(@, rd, "qualityIndicator", Col(x, 1)),
                                             rd, "expectedError", Col(x, 3))]
              [] name = "coefficientOfVariation" ->
                   [acc EXCEPT !.coefficientOfVariation = append(@, Col(x, 0)),
                               !.outputDict =
                                   OutAppend(@, rd, "coefficientOfVariation", Col(x, 0))]
              [] OTHER ->
                   [acc EXCEPT !.outputDict = PlainAppend(@, rd, name, x)]
      IN  Loop_NC005030(f, rd, mergedDict, k + 1, next)

RECURSIVE Loop_NC005031(_, _, _, _, _)
\* the GOES tank without a coefficient of variation
Loop_NC005031(f, rd, mergedDict, k, acc) ==
    IF k > Len(mergedDict) THEN acc
    ELSE
      LET name == mergedDict[k][2]
          x == resultSet_get(f, name)
          next ==
            CASE name = "pressure" ->
                   [acc EXCEPT !.pressure = append(@, x),
                               !.outputDict = OutAppend(@, rd, "pressure", x)]
              [] name = "windSpeed" ->
                   [acc EXCEPT !.windSpeed = append(@, x),
                               !.outputDict = OutAppend(@, rd, "windSpeed", x)]
              [] name = "zenithAngle" ->
                   [acc EXCEPT !.zenithAngle = append(@, x),
                               !.outputDict = OutAppend(@, rd, "zenithAngle", x)]
              [] name = "QIEE" ->
                   [acc EXCEPT !.qualityIndicator = append(@, Col(x, 1)),
                               !.expectedError = append(@, Col(x, 3)),
                               !.outputDict =
                                   OutAppend(OutAppend(@, rd, "qualityIndicator", Col(x, 1)),
                                             rd, "expectedError", Col(x, 3))]
              [] OTHER ->
                   [acc EXCEPT !.outputDict = PlainAppend(@, rd, name, x)]
      IN  Loop_NC005031(f, rd, mergedDict, k + 1, next)

RECURSIVE resolveColumn_firstMatch(_, _, _, _)
\* resolveColumn with the first matching column kept
resolveColumn_firstMatch(x, y, i, z) ==
    IF i = 3 THEN [raised |-> FALSE, z |-> z]
    ELSE IF Cardinality(unique(Col(y, i))) > 1 THEN [raised |-> TRUE, z |-> z]
    ELSE IF unique(Col(y, i)) = {qifnTag} /\ z = ones(Len(x), missingValue)
         THEN resolveColumn_firstMatch(x, y, i + 1, Col(x, i))
    ELSE resolveColumn_firstMatch(x, y, i + 1, z)

RECURSIVE resolveColumn(_, _, _, _)
\* for i in range(3): if np.unique(y[:,i].squeeze()) == 102: z[:] = x[:,i].squeeze()
\* The truth value of an array of more than one element raises ValueError.
resolveColumn(x, y, i, z) ==
    IF i = 3 THEN [raised |-> FALSE, z |-> z]
    ELSE IF Cardinality(unique(Col(y, i))) > 1 THEN [raised |-> TRUE, z |-> z]
    ELSE IF unique(Col(y, i)) = {qifnTag} THEN resolveColumn(x, y, i + 1, Col(x, i))
    ELSE resolveColumn(x, y, i + 1, z)

RECURSIVE Loop_NC005044(_, _, _, _, _)
\* JMA tanks (NC005044/45/46): the quality indicator is resolved by the
\* generatingApplication tags of a second query
Loop_NC005044(f, rd, mergedDict, k, acc) ==
    IF k > Len(mergedDict) \/ acc.raised THEN acc
    ELSE
      LET name == mergedDict[k][2]
          x == resultSet_get(f, name)
          y == resultSet_get(f, "generatingApplication")
          r == resolveColumn(x, y, 0, ones(Len(x), missingValue))
          next ==
            CASE name = "zenithAngle" ->
                   [acc EXCEPT !.zenithAngle = append(@, x),
                               !.outputDict = OutAppend(@, rd, "zenithAngle", x)]
              [] name = "qualityIndicator" ->
                   IF r.raised
                   THEN [acc EXCEPT !.queries = @ + 1, !.raised = TRUE]
                   ELSE [acc EXCEPT !.queries = @ + 1,
                                    !.qualityIndicator = append(@, r.z),
                                    !.outputDict = OutAppend(@, rd, "qualityIndicator", r.z)]
              [] name = "windComputationMethod" ->
                   [acc EXCEPT !.windComputationMethod = append(@, x),
                               !.outputDict = OutAppend(@, rd, "windComputationMethod", x)]
              [] OTHER ->
                   [acc EXCEPT !.outputDict = PlainAppend(@, rd, name, x)]
      IN  Loop_NC005044(f, rd, mergedDict, k + 1, next)

RECURSIVE Loop_NC005067(_, _, _, _, _)
\* EUMETSAT tanks (NC005067/68/69): the quality indicator is column 1
Loop_NC005067(f, rd, mergedDict, k, acc) ==
    IF k > Len(mergedDict) THEN acc
    ELSE
      LET name == mergedDict[k][2]
          x == resultSet_get(f, name)
          next ==
            CASE name = "zenithAngle" ->
                   [acc EXCEPT !.zenithAngle = append(@, x),
                               !.outputDict = OutAppend(@, rd, "zenithAngle", x)]
              [] name = "qualityIndicator" ->
                   [acc EXCEPT !.qualityIndicator = append(@, Col(x, 1)),
                               !.outputDict = OutAppend(@, rd, "qualityIndicator", Col(x, 1))]
              [] name = "windComputationMethod" ->
                   [acc EXCEPT !.windComputationMethod = append(@, x),
                               !.outputDict = OutAppend(@, rd, "windComputationMethod", x)]
              [] OTHER ->
                   [acc EXCEPT !.outputDict = PlainAppend(@, rd, name, x)]
      IN  Loop_NC005067(f, rd, mergedDict, k + 1, next)

RECURSIVE Loop_NC005070(_, _, _, _, _)
\* tanks without pre-QC (NC005070/71/80/81/90/91)
Loop_NC005070(f, rd, mergedDict, k, acc) ==
    IF k > Len(mergedDict) THEN acc
    ELSE
      LET name == mergedDict[k][2]
          x == resultSet_get(f, name)
          next ==
            CASE name = "windComputationMethod" ->
                   [acc EXCEPT !.windComputationMethod = append(@, x),
                               !.outputDict = OutAppend(@, rd, "windComputationMethod", x)]
              [] OTHER ->
                   [acc EXCEPT !.outputDict = PlainAppend(@, rd, name, x)]
      IN  Loop_NC005070(f, rd, mergedDict, k + 1, next)

---------------------------------------------------------------------------
(* After the loop: preQC, observationType, and the way a call ends *)

\* preQC = -1 * np.ones(size(idxPass) + size(idxFail)); preQC[idxPass] = 1
preQCvector(iPass, iFail) ==
    [k \in 1 .. (Cardinality(iPass) + Cardinality(iFail)) |->
        IF (k - 1) \in iPass THEN 1 ELSE -1]

\* the condition of one obType assignment: windComputationMethod == k, or >= k
methodIs(e, m) == IF e.op = "==" THEN m = e.k ELSE m >= e.k

RECURSIVE assignType(_, _, _)
\* obType[np.where(<condition on windComputationMethod>)] = val, one table row
\* after the other; an index past the end of obType raises IndexError
assignType(obType, wcm, table) ==
    IF table = <<>> THEN [raised |-> FALSE, obType |-> obType]
    ELSE
      LET e == Head(table)
          idx == where(wcm, LAMBDA m : methodIs(e, m))
      IN  IF \E i \in idx : i >= Len(obType)
          THEN [raised |-> TRUE, obType |-> obType]
          ELSE assignType([k \in 1 .. Len(obType) |->
                              IF (k - 1) \in idx THEN e.val ELSE obType[k]],
                          wcm, Tail(table))

NoError == [kind |-> "none", at |-> "none"]

NoBatch == <<>>

\* the vectors handed to pre_qc
QCof(acc) ==
    [called |-> TRUE,
     pressure |-> acc.pressure, windSpeed |-> acc.windSpeed,
     zenithAngle |-> acc.zenithAngle, qualityIndicator |-> acc.qualityIndicator,
     expectedError |-> acc.expectedError,
     coefficientOfVariation |-> acc.coefficientOfVariation,
     windComputationMethod |-> acc.windComputationMethod]

NoQC ==
    [called |-> FALSE,
     pressure |-> <<>>, windSpeed |-> <<>>, zenithAngle |-> <<>>,
     qualityIndicator |-> <<>>, expectedError |-> <<>>,
     coefficientOfVariation |-> <<>>, windComputationMethod |-> <<>>]

\* outputDict['preQC'] = preQC; outputDict['observationType'] = obType
WithDerived(od, preQC, obType) ==
    [n \in DOMAIN od \cup {"preQC", "observationType"} |->
        IF n = "preQC" THEN preQC
        ELSE IF n = "observationType" THEN obType
        ELSE od[n]]

\* the call raises: nothing is returned
Raise(kind, at, q, iPass, iFail, nq) ==
    /\ pc' = "failed"
    /\ error' = [kind |-> kind, at |-> at]
    /\ qc' = q
    /\ idxPass' = iPass
    /\ idxFail' = iFail
    /\ outputDict' = NoBatch
    /\ queries' = nq
    /\ UNCHANGED <<tankName, returnDict, file, runVars>>

\* Return with the index sets of the call before left in place
Return_keepsIndices(od, q, iPass, iFail, nq) ==
    /\ pc' = "done"
    /\ error' = NoError
    /\ qc' = q
    /\ idxPass' = iPass \cup idxPass
    /\ idxFail' = iFail \ idxPass
    /\ outputDict' = od
    /\ queries' = nq
    /\ UNCHANGED <<tankName, returnDict, file, runVars>>

\* return outputDict
Return(od, q, iPass, iFail, nq) ==
    /\ pc' = "done"
    /\ error' = NoError
    /\ qc' = q
    /\ idxPass' = iPass
    /\ idxFail' = iFail
    /\ outputDict' = od
    /\ queries' = nq
    /\ UNCHANGED <<tankName, returnDict, file, runVars>>

---------------------------------------------------------------------------
(* The extractors, one per tank variant *)

queryDict_NC005030 ==
    <<<<"PRLC[1]", "pressure">>,
      <<"WSPD", "windSpeed">>,
      <<"SAZA", "zenithAngle">>,
      <<"AMVQIC/PCCF", "QIEE">>,
      <<"AMVIVR/CVWD", "coefficientOfVariation">>>>

process_NC005030 ==
    /\ pc = "call"
    /\ tankName = "NC005030"
    /\ LET mergedDict == MergedDict(returnDict, queryDict_NC005030)
           acc == Loop_NC005030(file, returnDict, mergedDict, 1, EmptyAcc(returnDict))
           q == pre_qc_NC005030(acc.pressure, acc.windSpeed, acc.zenithAngle,
                            acc.qualityIndicator, acc.coefficientOfVariation,
                            acc.expectedError)
           preQC == preQCvector(q.idxPass, q.idxFail)
           obType == ones(Len(preQC), 245)
       IN  IF q.raised
           THEN Raise("IndexError", "pre_qc", QCof(acc), {}, {}, acc.queries)
           ELSE Return(WithDerived(acc.outputDict, preQC, obType),
                       QCof(acc), q.idxPass, q.idxFail, acc.queries)

queryDict_NC005031 ==
    <<<<"PRLC[1]", "pressure">>,
      <<"WSPD", "windSpeed">>,
      <<"SAZA", "zenithAngle">>,
      <<"AMVQIC/PCCF", "QIEE">>>>

process_NC005031 ==
    /\ pc = "call"
    /\ tankName = "NC005031"
    /\ LET mergedDict == MergedDict(returnDict, queryDict_NC005031)
           acc == Loop_NC005031(file, returnDict, mergedDict, 1, EmptyAcc(returnDict))
           q == pre_qc_NC005031(acc.pressure, acc.windSpeed, acc.zenithAngle,
                            acc.qualityIndicator, acc.expectedError)
           preQC == preQCvector(q.idxPass, q.idxFail)
           obType == ones(Len(preQC), 247)
       IN  IF q.raised
           THEN Raise("IndexError", "pre_qc", QCof(acc), {}, {}, acc.queries)
           ELSE Return(WithDerived(acc.outputDict, preQC, obType),
                       QCof(acc), q.idxPass, q.idxFail, acc.queries)

queryDict_NC005032 ==
    <<<<"PRLC[1]", "pressure">>,
      <<"WSPD", "windSpeed">>,
      <<"SAZA", "zenithAngle">>,
      <<"AMVQIC/PCCF", "QIEE">>,
      <<"AMVIVR/CVWD", "coefficientOfVariation">>>>

process_NC005032 ==
    /\ pc = "call"
    /\ tankName = "NC005032"
    /\ LET mergedDict == MergedDict(returnDict, queryDict_NC005032)
           acc == Loop_NC005030(file, returnDict, mergedDict, 1, EmptyAcc(returnDict))
           q == pre_qc_NC005032(acc.pressure, acc.windSpeed, acc.zenithAngle,
                            acc.qualityIndicator, acc.coefficientOfVariation,
                            acc.expectedError)
           preQC == preQCvector(q.idxPass, q.idxFail)
           obType == ones(Len(preQC), 251)
       IN  IF q.raised
           THEN Raise("IndexError", "pre_qc", QCof(acc), {}, {}, acc.queries)
           ELSE Return(WithDerived(acc.outputDict, preQC, obType),
                       QCof(acc), q.idxPass, q.idxFail, acc.queries)

queryDict_NC005034 ==
    <<<<"PRLC[1]", "pressure">>,
      <<"WSPD", "windSpeed">>,
      <<"SAZA", "zenithAngle">>,
      <<"AMVQIC/PCCF", "QIEE">>,
      <<"AMVIVR/CVWD", "coefficientOfVariation">>>>

process_NC005034 ==
    /\ pc = "call"
    /\ tankName = "NC005034"
    /\ LET mergedDict == MergedDict(returnDict, queryDict_NC005034)
           acc == Loop_NC005030(file, returnDict, mergedDict, 1, EmptyAcc(returnDict))
           q == pre_qc_NC005034(acc.pressure, acc.windSpeed, acc.zenithAngle,
                            acc.qualityIndicator, acc.coefficientOfVariation,
                            acc.expectedError)
           preQC == preQCvector(q.idxPass, q.idxFail)
           obType == ones(Len(preQC), 246)
       IN  IF q.raised
           THEN Raise("IndexError", "pre_qc", QCof(acc), {}, {}, acc.queries)
           ELSE Return(WithDerived(acc.outputDict, preQC, obType),
                       QCof(acc), q.idxPass, q.idxFail, acc.queries)

queryDict_NC005039 ==
    <<<<"PRLC[1]", "pressure">>,
      <<"WSPD", "windSpeed">>,
      <<"SAZA", "zenithAngle">>,
      <<"AMVQIC/PCCF", "QIEE">>,
      <<"AMVIVR/CVWD", "coefficientOfVariation">>>>

process_NC005039 ==
    /\ pc = "call"
    /\ tankName = "NC005039"
    /\ LET mergedDict == MergedDict(returnDict, queryDict_NC005039)
           acc == Loop_NC005030(file, returnDict, mergedDict, 1, EmptyAcc(returnDict))
           q == pre_qc_NC005039(acc.pressure, acc.windSpeed, acc.zenithAngle,
                            acc.qualityIndicator, acc.coefficientOfVariation,
                            acc.expectedError)
           preQC == preQCvector(q.idxPass, q.idxFail)
           obType == ones(Len(preQC), 240)
       IN  IF q.raised
           THEN Raise("IndexError", "pre_qc", QCof(acc), {}, {}, acc.queries)
           ELSE Return(WithDerived(acc.outputDict, preQC, obType),
                       QCof(acc), q.idxPass, q.idxFail, acc.queries)

queryDict_NC005044 ==
    <<<<"SAZA", "zenithAngle">>,
      <<"SWCM", "windComputationMethod">>,
      <<"QCPRMS[1]/PCCF", "qualityIndicator">>>>

\* obTypeTable_NC005044 with the last row an equality
obTypeTable_NC005044_eq4 ==
    <<[op |-> "==", k |-> 1, val |-> 252],
      [op |-> "==", k |-> 2, val |-> 242],
      [op |-> "==", k |-> 3, val |-> 250],
      [op |-> "==", k |-> 4, val |-> 250]>>

obTypeTable_NC005044 ==
    <<[op |-> "==", k |-> 1, val |-> 252],
      [op |-> "==", k |-> 2, val |-> 242],
      [op |-> "==", k |-> 3, val |-> 250],
      [op |-> ">=", k |-> 4, val |-> 250]>>

process_NC005044 ==
    /\ pc = "call"
    /\ tankName = "NC005044"
    /\ LET mergedDict == MergedDict(returnDict, queryDict_NC005044)
           acc == Loop_NC005044(file, returnDict, mergedDict, 1, EmptyAcc(returnDict))
           q == pre_qc_NC005044(acc.zenithAngle, acc.qualityIndicator,
                                acc.windComputationMethod)
           preQC == preQCvector(q.idxPass, q.idxFail)
           t == assignType(ones(Len(preQC), -1), acc.windComputationMethod,
                           obTypeTable_NC005044)
       IN  IF acc.raised
           THEN Raise("ValueError", "unpack", NoQC, {}, {}, acc.queries)
           ELSE IF t.raised
           THEN Raise("IndexError", "obType", QCof(acc), q.idxPass, q.idxFail,
                      acc.queries)
           ELSE Return(WithDerived(acc.outputDict, preQC, t.obType),
                       QCof(acc), q.idxPass, q.idxFail, acc.queries)

queryDict_NC005045 ==
    <<<<"SAZA", "zenithAngle">>,
      <<"SWCM", "windComputationMethod">>,
      <<"QCPRMS[1]/PCCF", "qualityIndicator">>>>

obTypeTable_NC005045 ==
    <<[op |-> "==", k |-> 1, val |-> 252],
      [op |-> "==", k |-> 2, val |-> 242],
      [op |-> "==", k |-> 3, val |-> 250],
      [op |-> ">=", k |-> 4, val |-> 250]>>

process_NC005045 ==
    /\ pc = "call"
    /\ tankName = "NC005045"
    /\ LET mergedDict == MergedDict(returnDict, queryDict_NC005045)
           acc == Loop_NC005044(file, returnDict, mergedDict, 1, EmptyAcc(returnDict))
           q == pre_qc_NC005045(acc.zenithAngle, acc.qualityIndicator,
                                acc.windComputationMethod)
           preQC == preQCvector(q.idxPass, q.idxFail)
           t == assignType(ones(Len(preQC), -1), acc.windComputationMethod,
                           obTypeTable_NC005045)
       IN  IF acc.raised
           THEN Raise("ValueError", "unpack", NoQC, {}, {}, acc.queries)
           ELSE IF t.raised
           THEN Raise("IndexError", "obType", QCof(acc), q.idxPass, q.idxFail,
                      acc.queries)
           ELSE Return(WithDerived(acc.outputDict, preQC, t.obType),
                       QCof(acc), q.idxPass, q.idxFail, acc.queries)

queryDict_NC005046 ==
    <<<<"SAZA", "zenithAngle">>,
      <<"SWCM", "windComputationMethod">>,
      <<"QCPRMS[1]/PCCF", "qualityIndicator">>>>

obTypeTable_NC005046 ==
    <<[op |-> "==", k |-> 1, val |-> 252],
      [op |-> "==", k |-> 2, val |-> 242],
      [op |-> "==", k |-> 3, val |-> 250],
      [op |-> ">=", k |-> 4, val |-> 250]>>

process_NC005046 ==
    /\ pc = "call"
    /\ tankName = "NC005046"
    /\ LET mergedDict == MergedDict(returnDict, queryDict_NC005046)
           acc == Loop_NC005044(file, returnDict, mergedDict, 1, EmptyAcc(returnDict))
           q == pre_qc_NC005046(acc.zenithAngle, acc.qualityIndicator,
                                acc.windComputationMethod)
           preQC == preQCvector(q.idxPass, q.idxFail)
           t == assignType(ones(Len(preQC), -1), acc.windComputationMethod,
                           obTypeTable_NC005046)
       IN  IF acc.raised
           THEN Raise("ValueError", "unpack", NoQC, {}, {}, acc.queries)
           ELSE IF t.raised
           THEN Raise("IndexError", "obType", QCof(acc), q.idxPass, q.idxFail,
                      acc.queries)
           ELSE Return(WithDerived(acc.outputDict, preQC, t.obType),
                       QCof(acc), q.idxPass, q.idxFail, acc.queries)

queryDict_NC005067 ==
    <<<<"SAZA", "zenithAngle">>,
      <<"AMVQIC/PCCF", "qualityIndicator">>,
      <<"SWCM", "windComputationMethod">>>>

obTypeTable_NC005067 ==
    <<[op |-> "==", k |-> 1, val |-> 253],
      [op |-> "==", k |-> 2, val |-> 243],
      [op |-> "==", k |-> 3, val |-> 254],
      [op |-> ">=", k |-> 4, val |-> 254]>>

process_NC005067 ==
    /\ pc = "call"
    /\ tankName = "NC005067"
    /\ LET mergedDict == MergedDict(returnDict, queryDict_NC005067)
           acc == Loop_NC005067(file, returnDict, mergedDict, 1, EmptyAcc(returnDict))
           q == pre_qc_NC005067(acc.zenithAngle, acc.qualityIndicator,
                                acc.windComputationMethod)
           preQC == preQCvector(q.idxPass, q.idxFail)
           t == assignType(ones(Len(preQC), -1), acc.windComputationMethod,
                           obTypeTable_NC005067)
       IN  IF t.raised
           THEN Raise("IndexError", "obType", QCof(acc), q.idxPass, q.idxFail,
                      acc.queries)
           ELSE Return(WithDerived(acc.outputDict, preQC, t.obType),
                       QCof(acc), q.idxPass, q.idxFail, acc.queries)

queryDict_NC005068 ==
    <<<<"SAZA", "zenithAngle">>,
      <<"AMVQIC/PCCF", "qualityIndicator">>,
      <<"SWCM", "windComputationMethod">>>>

obTypeTable_NC005068 ==
    <<[op |-> "==", k |-> 1, val |-> 253],
      [op |-> "==", k |-> 2, val |-> 243],
      [op |-> "==", k |-> 3, val |-> 254],
      [op |-> ">=", k |-> 4, val |-> 254]>>

process_NC005068 ==
    /\ pc = "call"
    /\ tankName = "NC005068"
    /\ LET mergedDict == MergedDict(returnDict, queryDict_NC005068)
           acc == Loop_NC005067(file, returnDict, mergedDict, 1, EmptyAcc(returnDict))
           q == pre_qc_NC005068(acc.zenithAngle, acc.qualityIndicator,
                                acc.windComputationMethod)
           preQC == preQCvector(q.idxPass, q.idxFail)
           t == assignType(ones(Len(preQC), -1), acc.windComputationMethod,
                           obTypeTable_NC005068)
       IN  IF t.raised
           THEN Raise("IndexError", "obType", QCof(acc), q.idxPass, q.idxFail,
                      acc.queries)
           ELSE Return(WithDerived(acc.outputDict, preQC, t.obType),
                       QCof(acc), q.idxPass, q.idxFail, acc.queries)

queryDict_NC005069 ==
    <<<<"SAZA", "zenithAngle">>,
      <<"AMVQIC/PCCF", "qualityIndicator">>,
      <<"SWCM", "windComputationMethod">>>>

obTypeTable_NC005069 ==
    <<[op |-> "==", k |-> 1, val |-> 253],
      [op |-> "==", k |-> 2, val |-> 243],
      [op |-> "==", k |-> 3, val |-> 254],
      [op |-> ">=", k |-> 4, val |-> 254]>>

process_NC005069 ==
    /\ pc = "call"
    /\ tankName = "NC005069"
    /\ LET mergedDict == MergedDict(returnDict, queryDict_NC005069)
           acc == Loop_NC005067(file, returnDict, mergedDict, 1, EmptyAcc(returnDict))
           q == pre_qc_NC005069(acc.zenithAngle, acc.qualityIndicator,
                                acc.windComputationMethod)
           preQC == preQCvector(q.idxPass, q.idxFail)
           t == assignType(ones(Len(preQC), -1), acc.windComputationMethod,
                           obTypeTable_NC005069)
       IN  IF t.raised
           THEN Raise("IndexError", "obType", QCof(acc), q.idxPass, q.idxFail,
                      acc.queries)
           ELSE Return(WithDerived(acc.outputDict, preQC, t.obType),
                       QCof(acc), q.idxPass, q.idxFail, acc.queries)

queryDict_NC005070 ==
    <<<<"SWCM", "windComputationMethod">>>>

\* obTypeTable_NC005070 with the cloud-top code typed as a displacement
obTypeTable_NC005070_wvct259 ==
    <<[op |-> "==", k |-> 1, val |-> 257],
      [op |-> "==", k |-> 3, val |-> 259],
      [op |-> ">=", k |-> 4, val |-> 259]>>

obTypeTable_NC005070 ==
    <<[op |-> "==", k |-> 1, val |-> 257],
      [op |-> "==", k |-> 3, val |-> 258],
      [op |-> ">=", k |-> 4, val |-> 259]>>

process_NC005070 ==
    /\ pc = "call"
    /\ tankName = "NC005070"
    /\ LET mergedDict == MergedDict(returnDict, queryDict_NC005070)
           acc == Loop_NC005070(file, returnDict, mergedDict, 1, EmptyAcc(returnDict))
           preQC == ones(size(acc.windComputationMethod), 1)
           t == assignType(ones(Len(preQC), -1), acc.windComputationMethod,
                           obTypeTable_NC005070)
       IN  IF t.raised
           THEN Raise("IndexError", "obType", NoQC, {}, {}, acc.queries)
           ELSE Return(WithDerived(acc.outputDict, preQC, t.obType),
                       NoQC, {}, {}, acc.queries)

queryDict_NC005071 ==
    <<<<"SWCM", "windComputationMethod">>>>

obTypeTable_NC005071 ==
    <<[op |-> "==", k |-> 1, val |-> 257],
      [op |-> "==", k |-> 3, val |-> 258],
      [op |-> ">=", k |-> 4, val |-> 259]>>

process_NC005071 ==
    /\ pc = "call"
    /\ tankName = "NC005071"
    /\ LET mergedDict == MergedDict(returnDict, queryDict_NC005071)
           acc == Loop_NC005070(file, returnDict, mergedDict, 1, EmptyAcc(returnDict))
           preQC == ones(size(acc.windComputationMethod), 1)
           t == assignType(ones(Len(preQC), -1), acc.windComputationMethod,
                           obTypeTable_NC005071)
       IN  IF t.raised
           THEN Raise("IndexError", "obType", NoQC, {}, {}, acc.queries)
           ELSE Return(WithDerived(acc.outputDict, preQC, t.obType),
                       NoQC, {}, {}, acc.queries)

queryDict_NC005080 ==
    <<<<"SWCM", "windComputationMethod">>>>

obTypeTable_NC005080 ==
    <<[op |-> "==", k |-> 1, val |-> 244]>>

process_NC005080 ==
    /\ pc = "call"
    /\ tankName = "NC005080"
    /\ LET mergedDict == MergedDict(returnDict, queryDict_NC005080)
           acc == Loop_NC005070(file, returnDict, mergedDict, 1, EmptyAcc(returnDict))
           preQC == ones(size(acc.windComputationMethod), 1)
           t == assignType(ones(Len(preQC), -1), acc.windComputationMethod,
                           obTypeTable_NC005080)
       IN  IF t.raised
           THEN Raise("IndexError", "obType", NoQC, {}, {}, acc.queries)
           ELSE Return(WithDerived(acc.outputDict, preQC, t.obType),
                       NoQC, {}, {}, acc.queries)

queryDict_NC005081 ==
    <<<<"SWCM", "windComputationMethod">>>>

obTypeTable_NC005081 ==
    <<[op |-> "==", k |-> 1, val |-> 244]>>

process_NC005081 ==
    /\ pc = "call"
    /\ tankName = "NC005081"
    /\ LET mergedDict == MergedDict(returnDict, queryDict_NC005081)
           acc == Loop_NC005070(file, returnDict, mergedDict, 1, EmptyAcc(returnDict))
           preQC == ones(size(acc.windComputationMethod), 1)
           t == assignType(ones(Len(preQC), -1), acc.windComputationMethod,
                           obTypeTable_NC005081)
       IN  IF t.raised
           THEN Raise("IndexError", "obType", NoQC, {}, {}, acc.queries)
           ELSE Return(WithDerived(acc.outputDict, preQC, t.obType),
                       NoQC, {}, {}, acc.queries)

queryDict_NC005090 ==
    <<<<"SWCM", "windComputationMethod">>>>

obTypeTable_NC005090 ==
    <<[op |-> "==", k |-> 1, val |-> 260]>>

process_NC005090 ==
    /\ pc = "call"
    /\ tankName = "NC005090"
    /\ LET mergedDict == MergedDict(returnDict, queryDict_NC005090)
           acc == Loop_NC005070(file, returnDict, mergedDict, 1, EmptyAcc(returnDict))
           preQC == ones(size(acc.windComputationMethod), 1)
           t == assignType(ones(Len(preQC), -1), acc.windComputationMethod,
                           obTypeTable_NC005090)
       IN  IF t.raised
           THEN Raise("IndexError", "obType", NoQC, {}, {}, acc.queries)
           ELSE Return(WithDerived(acc.outputDict, preQC, t.obType),
                       NoQC, {}, {}, acc.queries)

queryDict_NC005091 ==
    <<<<"SWCM", "windComputationMethod">>>>

obTypeTable_NC005091 ==
    <<[op |-> "==", k |-> 1, val |-> 260]>>

process_NC005091 ==
    /\ pc = "call"
    /\ tankName = "NC005091"
    /\ LET mergedDict == MergedDict(returnDict, queryDict_NC005091)
           acc == Loop_NC005070(file, returnDict, mergedDict, 1, EmptyAcc(returnDict))
           preQC == ones(size(acc.windComputationMethod), 1)
           t == assignType(ones(Len(preQC), -1), acc.windComputationMethod,
                           obTypeTable_NC005091)
       IN  IF t.raised
           THEN Raise("IndexError", "obType", NoQC, {}, {}, acc.queries)
           ELSE Return(WithDerived(acc.outputDict, preQC, t.obType),
                       NoQC, {}, {}, acc.queries)
---------------------------------------------------------------------------
(* The inputs of a call: the tank, the caller's returnDict, the decoded    *)
(* observations                                                            *)

GOESTanks == {"NC005030", "NC005031", "NC005032", "NC005034", "NC005039"}

JMATanks == {"NC005044", "NC005045", "NC005046"}

EUMTanks == {"NC005067", "NC005068", "NC005069"}

NoQCTanks == {"NC005070", "NC005071", "NC005080", "NC005081", "NC005090", "NC005091"}

Tanks == GOESTanks \cup JMATanks \cup EUMTanks \cup NoQCTanks

\* the tanks whose pre_qc screens on the zenith angle
ZenithTanks == GOESTanks \cup JMATanks \cup EUMTanks

\* the returnDict of extract_bulk_stats.py
outDict ==
    <<<<"CLAT", "latitude">>, <<"CLON", "longitude">>, <<"PRLC", "pressure">>,
      <<"WSPD", "windSpeed">>, <<"WDIR", "windDirection">>, <<"YEAR", "year">>,
      <<"MNTH", "month">>, <<"DAYS", "day">>, <<"HOUR", "hour">>,
      <<"MINU", "minute">>>>

\* a request that names the pre-QC variables by the extractors' own paths
ownPathDict ==
    <<<<"CLAT", "latitude">>, <<"PRLC[1]", "pressure">>, <<"WSPD", "windSpeed">>,
      <<"SAZA", "zenithAngle">>>>

\* a request that names the zenith angle by another path
zenithPathDict ==
    <<<<"SAZA[1]", "zenithAngle">>, <<"CLAT", "latitude">>>>

\* a request that names wind speed and computation method by other paths
speedMethodPathDict ==
    <<<<"WSPD[1]", "windSpeed">>, <<"SWCM[1]", "windComputationMethod">>>>

\* a request that names the quality indicator by another path
qualityPathDict ==
    <<<<"QCPRMS[1]/PCCF[1]", "qualityIndicator">>, <<"CLAT", "latitude">>>>

ReturnDicts ==
    {outDict, ownPathDict, zenithPathDict, speedMethodPathDict, qualityPathDict}

WcmVals == 0 .. MaxWcm

\* a GOES row: AMVQIC/PCCF is (nobs,4) with the quality indicator in column 1
\* and the expected error in column 3; AMVIVR/CVWD is (nobs,2) with the
\* coefficient of variation in column 0
RowGOES(pre, spd, zen, qin, cov, exp) ==
    [pre |-> pre, spd |-> spd, zen |-> zen, wcm |-> 1,
     pccf |-> <<0, qin, 0, exp>>, cvwd |-> <<cov, 0>>, gnap |-> <<0, 0, 0>>]

\* a JMA row: QCPRMS[1]/PCCF is (nobs,3), tagged by QCPRMS[1]/GNAP
RowJMA(zen, wcm, pccf, gnap) ==
    [pre |-> 20000, spd |-> 1000, zen |-> zen, wcm |-> wcm,
     pccf |-> pccf, cvwd |-> <<0, 0>>, gnap |-> gnap]

\* a EUMETSAT row: AMVQIC/PCCF is (nobs,4) with the quality indicator in column 1
RowEUM(zen, qin, wcm) ==
    [pre |-> 20000, spd |-> 1000, zen |-> zen, wcm |-> wcm,
     pccf |-> <<0, qin, 0, 0>>, cvwd |-> <<0, 0>>, gnap |-> <<0, 0, 0>>]

\* a row of a tank without pre-QC
RowNoQC(wcm) ==
    [pre |-> 20000, spd |-> 1000, zen |-> 10, wcm |-> wcm,
     pccf |-> <<0, 0, 0, 0>>, cvwd |-> <<0, 0>>, gnap |-> <<0, 0, 0>>]

\* a pressure every check of the tank lets pass
GoodPressure(t) == IF t = "NC005032" THEN 80000 ELSE 20000

\* an observation with no failing signal
PassRow(t) ==
    IF t \in GOESTanks THEN RowGOES(GoodPressure(t), 1000, 10, 95, 20, 50)
    ELSE IF t \in JMATanks THEN RowJMA(10, 1, <<95, 95, 95>>, <<101, 102, 103>>)
    ELSE IF t \in EUMTanks THEN RowEUM(10, 95, 1)
    ELSE RowNoQC(1)

\* <<wind speed, packed expected error>>: speeds below, at and above the floor
\* of 0.1 m/s; a packed error of 100 decodes to 0 m/s, 10 to 9 m/s, 9 to 9.1 m/s
SpeedAndError == {<<5, 9>>, <<5, 100>>, <<10, 100>>, <<1000, 9>>, <<1000, 10>>}

\* the first observation of a tank ranges over the signals of its checks
FirstRows(t) ==
    IF t \in GOESTanks THEN
        {RowGOES(pre, se[1], zen, qin, cov, se[2]) :
            pre \in {14999, 20000, 80000}, se \in SpeedAndError, zen \in {68, 70},
            qin \in {89, 90}, cov \in {4, 51}}
    ELSE IF t \in JMATanks THEN
        {RowJMA(zen, wcm, pccf, gnap) :
            zen \in {68, 70}, wcm \in WcmVals,
            pccf \in {<<84, 85, 100>>, <<101, 84, 85>>},
            gnap \in {<<101, 102, 103>>, <<102, 102, 101>>, <<101, 101, 101>>}}
    ELSE IF t \in EUMTanks THEN
        {RowEUM(zen, qin, wcm) :
            zen \in {68, 70}, qin \in {84, 85, 100, 101}, wcm \in WcmVals}
    ELSE {RowNoQC(wcm) : wcm \in WcmVals}

\* the observations that follow it
RestRows(t) ==
    IF t \in GOESTanks THEN
        {PassRow(t), RowGOES(14999, 5, 70, 89, 51, 9)}
    ELSE IF t \in JMATanks THEN
        {RowJMA(10, 1, <<95, 90, 85>>, gnap) :
            gnap \in {<<101, 102, 103>>, <<104, 102, 103>>,
                      <<101, 101, 101>>, <<104, 101, 101>>, <<102, 102, 101>>}}
    ELSE IF t \in EUMTanks THEN
        {PassRow(t), RowEUM(70, 84, 5)}
    ELSE {RowNoQC(1), RowNoQC(2)}

\* observations on the bounds of the quality, pressure and variation checks, every other
\* signal passing
BoundaryRows(t) ==
    IF t \in GOESTanks THEN
        {RowGOES(GoodPressure(t), 1000, 10, qin, 20, 50) : qin \in {100, 101}}
            \cup {RowGOES(pre, 1000, 10, 95, 20, 50) :
                      pre \in {15000, 30000, 30001, 69999, 70000}}
            \cup {RowGOES(GoodPressure(t), 1000, 10, 95, cov, 50) : cov \in {3, 50}}
    ELSE IF t \in JMATanks THEN
        \* more than one column of tags is 102
        {RowJMA(10, 1, <<84, 90, 95>>, gnap) :
            gnap \in {<<102, 101, 102>>, <<101, 102, 102>>, <<102, 102, 102>>}}
    ELSE {}

\* observations with one screened signal missing (NaN), every other signal
\* passing
MissingRows(t) ==
    IF t \in GOESTanks THEN
        {RowGOES(NaN, 1000, 10, 95, 20, 50), RowGOES(GoodPressure(t), NaN, 10, 95, 20, 50),
         RowGOES(GoodPressure(t), 1000, NaN, 95, 20, 50),
         RowGOES(GoodPressure(t), 1000, 10, NaN, 20, 50),
         RowGOES(GoodPressure(t), 1000, 10, 95, NaN, 50),
         RowGOES(GoodPressure(t), 1000, 10, 95, 20, NaN)}
    ELSE IF t \in JMATanks THEN
        {RowJMA(NaN, 1, <<95, 95, 95>>, <<101, 102, 103>>),
         RowJMA(10, 1, <<95, NaN, 95>>, <<101, 102, 103>>)}
    ELSE IF t \in EUMTanks THEN
        {RowEUM(NaN, 95, 1), RowEUM(10, NaN, 1)}
    ELSE {}

SeqsUpTo(S, n) == UNION {[1 .. k -> S] : k \in 0 .. n}

\* the scenario of five observations that differ in the zenith angle only
zenithScenario == <<10, 70, 30, 68, 90>>

ScenarioFile(t) == [k \in 1 .. Len(zenithScenario) |-> [PassRow(t) EXCEPT !.zen = zenithScenario[k]]]

\* the decoded tanks: 1 .. MaxObs observations, and the scenario
Files(t) ==
    {<<r>> \o s : r \in FirstRows(t) \cup BoundaryRows(t) \cup MissingRows(t),
                   s \in SeqsUpTo(RestRows(t), MaxObs - 1)}
        \cup (IF t \in ZenithTanks THEN {ScenarioFile(t)} ELSE {})

---------------------------------------------------------------------------
(* The state machine of one extraction call *)

\* obLat = np.asarray([]) ... obPQC = np.asarray([])
EmptyAggregates ==
    /\ obLat = <<>> /\ obLon = <<>> /\ obPre = <<>> /\ obSpd = <<>>
    /\ obDir = <<>> /\ obYr = <<>> /\ obMon = <<>> /\ obDay = <<>>
    /\ obHr = <<>> /\ obMin = <<>> /\ obTyp = <<>> /\ obPQC = <<>>

\* no netCDF file has been written
NoDataset == [written |-> FALSE]

Init ==
    /\ pc = "call"
    /\ tankName \in Tanks
    /\ returnDict \in ReturnDicts
    /\ file \in Files(tankName)
    /\ qc = NoQC
    /\ idxPass = {}
    /\ idxFail = {}
    /\ outputDict = NoBatch
    /\ queries = 0
    /\ error = NoError
    /\ tankNameList = <<tankName>>
    /\ tankIdx = 0
    /\ EmptyAggregates
    /\ log = <<>>
    /\ reported = <<>>
    /\ nc_out = NoDataset

Next ==
    \/ process_NC005030
    \/ process_NC005031
    \/ process_NC005032
    \/ process_NC005034
    \/ process_NC005039
    \/ process_NC005044
    \/ process_NC005045
    \/ process_NC005046
    \/ process_NC005067
    \/ process_NC005068
    \/ process_NC005069
    \/ process_NC005070
    \/ process_NC005071
    \/ process_NC005080
    \/ process_NC005081
    \/ process_NC005090
    \/ process_NC005091

Spec == Init /\ [][Next]_vars

---------------------------------------------------------------------------
(* What the claims speak of *)

\* the number of observations the decoder returned for this call
NObs == Len(file)

\* the vectors the tank's pre_qc screens
QCVectors(t) ==
    IF t = "NC005031"
    THEN {qc.pressure, qc.windSpeed, qc.zenithAngle, qc.qualityIndicator,
          qc.expectedError}
    ELSE IF t \in GOESTanks
    THEN {qc.pressure, qc.windSpeed, qc.zenithAngle, qc.qualityIndicator,
          qc.expectedError, qc.coefficientOfVariation}
    ELSE {qc.zenithAngle, qc.qualityIndicator, qc.windComputationMethod}

\* vector v has an element at index i
In(v, i) == i < Len(v)

\* the checks, one observation at a time, on the vectors pre_qc was given
ZenithOK(i) == In(qc.zenithAngle, i) /\ le(qc.zenithAngle[i + 1], 68)

QualityOK(t, i) ==
    /\ In(qc.qualityIndicator, i)
    /\ ge(qc.qualityIndicator[i + 1], IF t \in GOESTanks THEN 90 ELSE 85)
    /\ le(qc.qualityIndicator[i + 1], 100)

PressureOK(t, i) ==
    /\ In(qc.pressure, i)
    /\ ge(qc.pressure[i + 1], IF t = "NC005032" THEN 70000 ELSE 15000)
    /\ (t = "NC005034" => le(qc.pressure[i + 1], 30000))

VariationOK(i) ==
    /\ In(qc.coefficientOfVariation, i)
    /\ ge(qc.coefficientOfVariation[i + 1], 4)
    /\ le(qc.coefficientOfVariation[i + 1], 50)

\* (10 - 0.1*exp)/spd <= 0.9 at a speed above 0.1 m/s
ErrorOK(i) ==
    /\ In(qc.expectedError, i)
    /\ In(qc.windSpeed, i)
    /\ gt(qc.windSpeed[i + 1], 10)
    /\ qc.expectedError[i + 1] # NaN
    /\ 100 * (100 - qc.expectedError[i + 1]) <= 9 * qc.windSpeed[i + 1]

MethodOK(i) == In(qc.windComputationMethod, i) /\ qc.windComputationMethod[i + 1] # 5

\* the checks of tank t other than the one named skip
OtherChecksOK(t, i, skip) ==
    /\ skip = "zenith" \/ ZenithOK(i)
    /\ skip = "quality" \/ QualityOK(t, i)
    /\ t \in GOESTanks => /\ skip = "pressure" \/ PressureOK(t, i)
                          /\ skip = "variation" \/ t = "NC005031" \/ VariationOK(i)
                          /\ skip = "error" \/ ErrorOK(i)
    /\ t \notin GOESTanks => skip = "method" \/ MethodOK(i)

EveryCheckOK(t, i) == OtherChecksOK(t, i, "none")

\* the call returned a batch after screening
Screened == pc = "done" /\ qc.called

\* column i of the generatingApplication tags of the decoded tank
TagColumn(i) == [k \in 1 .. NObs |-> file[k].gnap[i + 1]]

\* column i of the packed QCPRMS[1]/PCCF array of the decoded tank
ValueColumn(i) == [k \in 1 .. NObs |-> file[k].pccf[i + 1]]

---------------------------------------------------------------------------
(* The claims *)

\* C1 (as claimed): the pass and fail indices a pre_qc returns are disjoint,
\* their union is exactly {0..N-1} and their sizes add up to N, N being the
\* number of observations of the extraction call.
C1_PartitionOfObservations ==
    Screened =>
        /\ idxPass \cap idxFail = {}
        /\ idxPass \cup idxFail = arange(NObs)
        /\ Cardinality(idxPass) + Cardinality(idxFail) = NObs

\* C2 (as claimed): every vector of the returned batch, the requested ones as
\* well as preQC and observationType, has one element per observation.
C2_RowAlignment ==
    pc = "done" => \A n \in DOMAIN outputDict : Len(outputDict[n]) = NObs

\* C3 (as claimed): all the vectors handed to pre_qc have length N.
C3_QCInputLengths ==
    qc.called => \A v \in QCVectors(tankName) : Len(v) = NObs

\* C4: an index is in idxPass exactly when it passes every check of the tank,
\* each check taken on its own over all indices; the indices of the
\* observations are among those screened.
C4_PassIffEveryCheck ==
    Screened =>
        /\ arange(NObs) \subseteq idxPass \cup idxFail
        /\ \A i \in idxPass \cup idxFail :
              (i \in idxPass) <=> EveryCheckOK(tankName, i)
        /\ idxPass = (idxPass \cup idxFail) \
              ( {i \in idxPass \cup idxFail : ~ OtherChecksOK(tankName, i, "zenith")}
                \cup {i \in idxPass \cup idxFail : ~ ZenithOK(i)} )

\* C4 witness: a screened batch in which one observation fails two checks at
\* once and another passes all of them.
C4_Witness ==
    /\ Screened
    /\ \E i \in idxFail : ~ ZenithOK(i) /\ ~ QualityOK(tankName, i) /\ i < NObs
    /\ idxPass # {}

\* C5 (as claimed): preQC has one entry per observation, each +1 or -1, +1
\* exactly at the indices of idxPass and -1 exactly at those of idxFail.
C5_PreQCPerObservation ==
    Screened =>
        /\ Len(outputDict["preQC"]) = NObs
        /\ \A k \in 1 .. Len(outputDict["preQC"]) :
              /\ outputDict["preQC"][k] \in {1, -1}
              /\ (outputDict["preQC"][k] = 1) <=> ((k - 1) \in idxPass)
              /\ (outputDict["preQC"][k] = -1) <=> ((k - 1) \in idxFail)

C7_ExpectedErrorCheck ==
    (Screened /\ tankName \in GOESTanks) =>
        \A i \in arange(NObs) :
            LET spd == file[i + 1].spd
                exp == file[i + 1].pccf[4]
            IN  /\ spd <= 10 => i \in idxFail
                /\ (spd > 10 /\ OtherChecksOK(tankName, i, "error")) =>
                      ((i \in idxFail) <=> (100 * (100 - exp) > 9 * spd))

\* C7 witness: an observation at 0.05 m/s whose expected error decodes to zero
\* and whose other signals pass, screened and failed.
C7_Witness ==
    /\ Screened
    /\ tankName \in GOESTanks
    /\ \E i \in arange(NObs) :
          /\ file[i + 1].spd = 5
          /\ file[i + 1].pccf[4] = 100
          /\ OtherChecksOK(tankName, i, "error")
          /\ i \in idxFail

\* C8 (as claimed, for the request of extract_bulk_stats.py): when tag column 1
\* is uniformly 102 and the other two columns are not, the call completes and
\* the quality indicator is column 1 of the packed array for every row.
C8_ColumnOneResolved ==
    ( /\ pc # "call"
      /\ tankName \in JMATanks
      /\ returnDict = outDict
      /\ unique(TagColumn(1)) = {qifnTag}
      /\ unique(TagColumn(0)) # {qifnTag}
      /\ unique(TagColumn(2)) # {qifnTag} ) =>
        /\ pc = "done"
        /\ qc.qualityIndicator = ValueColumn(1)

\* C9 (as claimed, for the request of extract_bulk_stats.py): when no tag is
\* 102, the call does not fail, the quality indicator is the missing value for
\* every observation, and every observation gets preQC = -1.
C9_NoMatchDegrades ==
    ( /\ pc # "call"
      /\ tankName \in JMATanks
      /\ returnDict = outDict
      /\ \A i \in 0 .. 2 : qifnTag \notin unique(TagColumn(i)) ) =>
        /\ pc = "done"
        /\ qc.qualityIndicator = ones(NObs, missingValue)
        /\ outputDict["preQC"] = ones(NObs, -1)

\* the method codes a tank is documented to carry: every channel for the
\* IR/VIS/WV tanks, IR and WV for TERRA/AQUA, IR alone for the LEO IR tanks;
\* the GOES tanks are typed without regard to the code
MethodDomain(t) ==
    IF t \in GOESTanks THEN WcmVals
    ELSE IF t \in JMATanks \cup EUMTanks THEN {m \in WcmVals : m >= 1}
    ELSE IF t \in {"NC005070", "NC005071"} THEN {m \in WcmVals : m = 1 \/ m >= 3}
    ELSE {1}

\* the observation types of a tank's table
TypeCodes(t) ==
    CASE t = "NC005030" -> {245}
      [] t = "NC005031" -> {247}
      [] t = "NC005032" -> {251}
      [] t = "NC005034" -> {246}
      [] t = "NC005039" -> {240}
      [] t \in JMATanks -> {252, 242, 250}
      [] t \in EUMTanks -> {253, 243, 254}
      [] t \in {"NC005070", "NC005071"} -> {257, 258, 259}
      [] t \in {"NC005080", "NC005081"} -> {244}
      [] t \in {"NC005090", "NC005091"} -> {260}

\* C10: in a returned batch, an observation whose method code is in the tank's
\* documented domain has an observationType of the tank's table, never -1.
C10_ClassifierTotal ==
    pc = "done" =>
        \A i \in arange(NObs) :
            file[i + 1].wcm \in MethodDomain(tankName) =>
                /\ In(outputDict["observationType"], i)
                /\ outputDict["observationType"][i + 1] \in TypeCodes(tankName)
                /\ outputDict["observationType"][i + 1] # -1

\* C10 witness: a JMA batch with a method code above 4, typed 250.
C10_Witness ==
    /\ pc = "done"
    /\ tankName \in JMATanks
    /\ \E i \in arange(NObs) :
          /\ file[i + 1].wcm > 4
          /\ outputDict["observationType"][i + 1] = 250


\* the tanks whose extractor declares no check and one type
ZeroCheckTanks == {"NC005080", "NC005081", "NC005090", "NC005091"}

\* C12 (as claimed): a zero-check tank returns preQC = +1 and the tank's one
\* observation type (244 for NC005080/81, 260 for NC005090/91) for every row,
\* whatever the inputs.
C12_ZeroCheckConstantType ==
    (pc = "done" /\ tankName \in ZeroCheckTanks) =>
        /\ \A k \in 1 .. Len(outputDict["preQC"]) : outputDict["preQC"][k] = 1
        /\ \A k \in 1 .. Len(outputDict["observationType"]) :
              outputDict["observationType"][k] =
                  (IF tankName \in {"NC005080", "NC005081"} THEN 244 ELSE 260)

\* C13: the returned batch has exactly the names the caller requested plus
\* preQC and observationType as its keys.
C13_BatchKeys ==
    pc = "done" =>
        DOMAIN outputDict = values(returnDict) \cup {"preQC", "observationType"}

\* C13 witness: a batch of a GOES tank that was screened on the zenith angle
\* and the quality indicator, neither of which was requested nor returned.
C13_Witness ==
    /\ Screened
    /\ tankName \in GOESTanks
    /\ qc.zenithAngle # <<>>
    /\ qc.qualityIndicator # <<>>
    /\ "zenithAngle" \notin values(returnDict)
    /\ DOMAIN outputDict = values(returnDict) \cup {"preQC", "observationType"}
    /\ {"zenithAngle", "qualityIndicator", "QIEE"} \cap DOMAIN outputDict = {}

\* C19: an observation with no other failing signal passes exactly when its
\* quality indicator lies in [qiMin, 100], both bounds included, qiMin being
\* 90 in the GOES tanks and 85 in NC005044/45/46/67/68/69.
C19_QualityIndicatorCheck ==
    (Screened /\ tankName \in ZenithTanks) =>
        \A i \in arange(NObs) :
            (In(qc.qualityIndicator, i) /\ OtherChecksOK(tankName, i, "quality")) =>
                LET qi == qc.qualityIndicator[i + 1]
                    floor == IF tankName \in GOESTanks THEN 90 ELSE 85
                IN  /\ (i \in idxPass) <=> (floor <= qi /\ qi <= 100)
                    /\ (i \in idxFail) <=> (qi < floor \/ qi > 100)

\* C19 witness: an observation of a QIFN tank with quality indicator 85, passed.
C19_Witness ==
    /\ Screened
    /\ tankName \in JMATanks \cup EUMTanks
    /\ \E i \in arange(NObs) :
          /\ In(qc.qualityIndicator, i)
          /\ qc.qualityIndicator[i + 1] = 85
          /\ i \in idxPass

\* C20: in a GOES tank an observation with no other failing signal fails
\* exactly when its pressure is below 15000 Pa (NC005030/31/39), below
\* 70000 Pa (NC005032), or outside [15000, 30000] Pa (NC005034); a pressure
\* on a bound passes.
C20_PressureCheck ==
    (Screened /\ tankName \in GOESTanks) =>
        \A i \in arange(NObs) :
            OtherChecksOK(tankName, i, "pressure") =>
                LET p == file[i + 1].pre
                    fails == CASE tankName = "NC005032" -> p < 70000
                               [] tankName = "NC005034" -> p < 15000 \/ p > 30000
                               [] OTHER -> p < 15000
                IN  /\ (i \in idxFail) <=> fails
                    /\ (i \in idxPass) <=> ~ fails

\* C20 witness: an observation of NC005034 at exactly 30000 Pa, passed.
C20_Witness ==
    /\ Screened
    /\ tankName = "NC005034"
    /\ \E i \in arange(NObs) : file[i + 1].pre = 30000 /\ i \in idxPass

---------------------------------------------------------------------------
(* The run of extract_bulk_stats.py: for each tank of tankNameList, one    *)
(* call of the dispatcher inside try, the appends to the aggregate arrays, *)
(* and the bare except that skips the tank.  pc is "loop" at the head of   *)
(* the for statement, "call" inside try before the call, "done" or         *)
(* "failed" once the call has returned or raised, "finished" after the     *)
(* loop.  The results of a call stay in place until the next call ends.    *)

MaxTanks == 3   \* tanks of one run

\* tankNameList of extract_bulk_stats.py
driverTankNameList ==
    <<"NC005030", "NC005031", "NC005032", "NC005034", "NC005039", "NC005044",
      "NC005045", "NC005046", "NC005067", "NC005068", "NC005069", "NC005070",
      "NC005071", "NC005072", "NC005080", "NC005081", "NC005091">>

\* the contiguous parts of at most n tanks of list L
Windows(L, n) ==
    UNION {{SubSeq(L, i, i + k - 1) : k \in 1 .. (IF Len(L) - i + 1 < n THEN Len(L) - i + 1 ELSE n)} :
              i \in 1 .. Len(L)}

\* runs that come back to a tank after another one
RepeatLists ==
    {<<"NC005030", "NC005044", "NC005030">>,
     <<"NC005045", "NC005080", "NC005045">>,
     <<"NC005090", "NC005067", "NC005090">>}

\* the tank lists of the runs: parts of the driver's list, and the repeats
TankLists == Windows(driverTankNameList, MaxTanks) \cup RepeatLists

\* what the decoder may hold for a tank in a run
DriverFiles(t) ==
    IF t \in GOESTanks THEN
        {<<PassRow(t)>>, <<RowGOES(14999, 5, 70, 89, 51, 9), PassRow(t)>>}
    ELSE IF t \in JMATanks THEN
        {<<PassRow(t)>>,
         <<RowJMA(70, 0, <<95, 95, 95>>, <<101, 102, 103>>), PassRow(t)>>,
         <<RowJMA(10, 1, <<95, 90, 85>>, <<101, 102, 103>>),
           RowJMA(10, 1, <<95, 90, 85>>, <<104, 102, 103>>)>>}
    ELSE IF t \in EUMTanks THEN
        {<<PassRow(t)>>, <<RowEUM(70, 84, 0), PassRow(t)>>}
    ELSE IF t \in NoQCTanks THEN
        {<<RowNoQC(1)>>, <<RowNoQC(2), RowNoQC(1)>>}
    ELSE {<<>>}

\* for tankName in tankNameList: outDict = {...}; try:
nextTank ==
    /\ pc = "loop"
    /\ tankIdx < Len(tankNameList)
    /\ tankName' = tankNameList[tankIdx + 1]
    /\ returnDict' = outDict
    /\ file' \in DriverFiles(tankNameList[tankIdx + 1])
    /\ pc' = "call"
    /\ UNCHANGED <<qc, idxPass, idxFail, outputDict, queries, error, runVars>>

\* the dispatcher is asked for a tank it has no extractor for
unknownTank ==
    /\ pc = "call"
    /\ tankName \notin Tanks
    /\ Raise("ConfigurationError", "process_satwnd_tank", NoQC, {}, {}, 0)

\* process_satwnd_tank(tankName, bufrFileName, returnDict): the extractor of
\* the tank, or a Configuration error
process_satwnd_tank ==
    \/ process_NC005030 \/ process_NC005031 \/ process_NC005032
    \/ process_NC005034 \/ process_NC005039
    \/ process_NC005044 \/ process_NC005045 \/ process_NC005046
    \/ process_NC005067 \/ process_NC005068 \/ process_NC005069
    \/ process_NC005070 \/ process_NC005071
    \/ process_NC005080 \/ process_NC005081
    \/ process_NC005090 \/ process_NC005091
    \/ unknownTank

\* the decoder raises inside bufr_query (the file cannot be opened or the
\* query cannot be executed)
bufr_query_fails ==
    /\ pc = "call"
    /\ tankName \in Tanks
    /\ Raise("DataUnavailable", "bufr_query", NoQC, {}, {}, 1)

\* the order of the appends, by variable name of amvDict
AppendOrder ==
    <<"latitude", "longitude", "pressure", "windSpeed", "windDirection", "year",
      "month", "day", "hour", "minute", "observationType", "preQC">>

\* the position in AppendOrder of the first name amvDict lacks (KeyError), or
\* one past the end
FirstMissing(amvDict) ==
    LET missing == {k \in 1 .. Len(AppendOrder) : AppendOrder[k] \notin DOMAIN amvDict}
    IN  IF missing = {} THEN Len(AppendOrder) + 1
        ELSE CHOOSE k \in missing : \A j \in missing : k <= j

\* Appended with the arguments of np.append exchanged
Appended_inFront(ob, amvDict, k) ==
    IF k < FirstMissing(amvDict) THEN append(amvDict[AppendOrder[k]], ob) ELSE ob

\* ob = np.append(ob, amvDict[AppendOrder[k]]), if the try block gets there
Appended(ob, amvDict, k) ==
    IF k < FirstMissing(amvDict) THEN append(ob, amvDict[AppendOrder[k]]) ELSE ob

\* one entry of the history
LogEntry(status, kind) ==
    [tank |-> tankName, status |-> status, kind |-> kind, rows |-> Len(file),
     file |-> file, screened |-> qc.called, idxPass |-> idxPass, idxFail |-> idxFail]

\* the call returned amvDict: append data to master arrays
appendBatch ==
    /\ pc = "done"
    /\ obLat' = Appended(obLat, outputDict, 1)
    /\ obLon' = Appended(obLon, outputDict, 2)
    /\ obPre' = Appended(obPre, outputDict, 3)
    /\ obSpd' = Appended(obSpd, outputDict, 4)
    /\ obDir' = Appended(obDir, outputDict, 5)
    /\ obYr' = Appended(obYr, outputDict, 6)
    /\ obMon' = Appended(obMon, outputDict, 7)
    /\ obDay' = Appended(obDay, outputDict, 8)
    /\ obHr' = Appended(obHr, outputDict, 9)
    /\ obMin' = Appended(obMin, outputDict, 10)
    /\ obTyp' = Appended(obTyp, outputDict, 11)
    /\ obPQC' = Appended(obPQC, outputDict, 12)
    /\ log' = Append(log,
                IF FirstMissing(outputDict) > Len(AppendOrder)
                THEN LogEntry("appended", "none")
                ELSE LogEntry("skipped", "KeyError"))
    /\ tankIdx' = tankIdx + 1
    /\ pc' = "loop"
    /\ UNCHANGED <<tankName, returnDict, file, qc, idxPass, idxFail, outputDict,
                   queries, error, tankNameList, reported, nc_out>>

\* skipTank with the exception ending the loop
skipTank_aborts ==
    /\ pc = "failed"
    /\ log' = Append(log, LogEntry("skipped", error.kind))
    /\ tankIdx' = Len(tankNameList)
    /\ pc' = "loop"
    /\ UNCHANGED <<tankName, returnDict, file, qc, idxPass, idxFail, outputDict,
                   queries, error, tankNameList, aggVars, reported, nc_out>>

\* skipTank with the loop going back to the tank that raised
skipTank_retries ==
    /\ pc = "failed"
    /\ pc' = "loop"
    /\ UNCHANGED <<tankName, returnDict, file, qc, idxPass, idxFail, outputDict,
                   queries, error, runVars>>

\* except: print('warning: ' + tankName + ' was not processed due to errors')
skipTank ==
    /\ pc = "failed"
    /\ log' = Append(log, LogEntry("skipped", error.kind))
    /\ tankIdx' = tankIdx + 1
    /\ pc' = "loop"
    /\ UNCHANGED <<tankName, returnDict, file, qc, idxPass, idxFail, outputDict,
                   queries, error, tankNameList, aggVars, reported, nc_out>>

RECURSIVE sorted(_)
\* the elements of a set of numbers in ascending order, as np.unique returns them
sorted(S) ==
    IF S = {} THEN <<>>
    ELSE LET lo == CHOOSE x \in S : \A y \in S : x <= y
         IN  <<lo>> \o sorted(S \ {lo})

\* reportLine with the counts taken over all of obPQC: obPQC instead of obPQC[i]
reportLine_allRows(t) ==
    LET i == where(obTyp, LAMBDA v : v = t)
        n == Cardinality(i)
        p == Cardinality(where(obPQC, LAMBDA q : q = 1))
        f == Cardinality(where(obPQC, LAMBDA q : q = -1))
    IN  [typ |-> t, n |-> n, p |-> p, f |-> f,
         pass |-> [num |-> 100 * p, den |-> n],
         fail |-> [num |-> 100 * f, den |-> n]]

\* one line of the report, for a type t of np.unique(obTyp):
\*   i = np.where(obTyp==t); n = np.size(i)
\*   p = np.size(np.where(obPQC[i]==1.)); f = np.size(np.where(obPQC[i]==-1.))
\* with the percentages 100*p/n and 100*f/n kept as fractions
reportLine(t) ==
    LET i == where(obTyp, LAMBDA v : v = t)
        n == Cardinality(i)
        p == Cardinality({k \in i : k < Len(obPQC) /\ obPQC[k + 1] = 1})
        f == Cardinality({k \in i : k < Len(obPQC) /\ obPQC[k + 1] = -1})
    IN  [typ |-> t, n |-> n, p |-> p, f |-> f,
         pass |-> [num |-> 100 * p, den |-> n],
         fail |-> [num |-> 100 * f, den |-> n]]

\* the lines of the report, one per type in ascending order
reportLines ==
    LET types == sorted(unique(obTyp))
    IN  [k \in 1 .. Len(types) |-> reportLine(types[k])]

\* the netCDF file: the unlimited dimension 'ob' grows to the longest array
\* written along it, and each variable holds the aggregate assigned to it
Dataset ==
    LET lens == {Len(aggVars[k]) : k \in 1 .. Len(aggVars)}
    IN  [written |-> TRUE,
         ob |-> CHOOSE n \in lens : \A m \in lens : m <= n,
         lat |-> obLat, lon |-> obLon, pre |-> obPre, wspd |-> obSpd,
         wdir |-> obDir, year |-> obYr, mon |-> obMon, day |-> obDay,
         hour |-> obHr, minute |-> obMin, typ |-> obTyp, pqc |-> obPQC]

\* obPQC[i] raises IndexError when an index of i = np.where(obTyp==t) is past
\* the end of obPQC; every index of obTyp belongs to the i of its type
reportRaises == \E k \in arange(Len(obTyp)) : k >= Len(obPQC)

\* the loop is over: report ob-types and pre-QC, save data to netCDF file; an
\* IndexError in the report ends the script before the file is written
report ==
    /\ pc = "loop"
    /\ tankIdx = Len(tankNameList)
    /\ IF reportRaises
       THEN /\ pc' = "aborted"
            /\ UNCHANGED <<reported, nc_out>>
       ELSE /\ pc' = "finished"
            /\ reported' = reportLines
            /\ nc_out' = Dataset
    /\ UNCHANGED <<tankName, returnDict, file, qc, idxPass, idxFail, outputDict,
                   queries, error, tankNameList, tankIdx, aggVars, log>>

InitRun ==
    /\ pc = "loop"
    /\ tankNameList \in TankLists
    /\ tankIdx = 0
    /\ EmptyAggregates
    /\ log = <<>>
    /\ reported = <<>>
    /\ nc_out = NoDataset
    /\ tankName = "none"
    /\ returnDict = outDict
    /\ file = <<>>
    /\ qc = NoQC
    /\ idxPass = {}
    /\ idxFail = {}
    /\ outputDict = NoBatch
    /\ queries = 0
    /\ error = NoError

NextRun ==
    \/ nextTank
    \/ bufr_query_fails
    \/ process_satwnd_tank
    \/ appendBatch
    \/ skipTank
    \/ report

SpecRun == InitRun /\ [][NextRun]_vars

\* the run as the interpreter executes it: a sequential script that goes on to
\* its next statement as long as it has one
SpecRunFair == SpecRun /\ WF_vars(NextRun)

---------------------------------------------------------------------------
(* The claims about the run *)

\* vector a is the beginning of vector b
IsPrefix(a, b) == Len(a) <= Len(b) /\ SubSeq(b, 1, Len(a)) = a

RECURSIVE RowsAppended(_)
\* the observations of the tanks whose batch was appended, summed over the history
RowsAppended(l) ==
    IF l = <<>> THEN 0
    ELSE (IF Head(l).status = "appended" THEN Head(l).rows ELSE 0) + RowsAppended(Tail(l))

\* C11 (as claimed): after a run, no element of the aggregated observation
\* types equals the unclassified sentinel -1.
C11_NoSentinelInOutput ==
    pc = "finished" => \A k \in 1 .. Len(obTyp) : obTyp[k] # -1

\* C14: a tank whose processing raised leaves every aggregate array as it
\* was and the loop goes on with the next tank of the list; at the end of the
\* run every tank of the list has had its iteration, in order.
C14_SkipAndContinue ==
    /\ [](pc = "finished" =>
            /\ Len(log) = Len(tankNameList)
            /\ \A k \in 1 .. Len(log) : log[k].tank = tankNameList[k])
    /\ [][pc = "failed" =>
            /\ aggVars' = aggVars
            /\ tankIdx' = tankIdx + 1
            /\ pc' = "loop"]_vars

\* C14 witness: a finished run in which a tank was skipped and a later tank
\* of the list was appended to the aggregates.
C14_Witness ==
    /\ pc = "finished"
    /\ \E j \in 1 .. Len(log) : \E k \in (j + 1) .. Len(log) :
          /\ log[j].status = "skipped"
          /\ log[k].status = "appended"
    /\ Len(obLat) = RowsAppended(log)
    /\ obLat # <<>>

\* C15 (as claimed): a Configuration error for an unknown tank is never
\* handled as a skipped tank of a run that goes on.
C15_UnknownTankIsFatal ==
    \A k \in 1 .. Len(log) :
        ~ (log[k].kind = "ConfigurationError" /\ log[k].status = "skipped")

\* C16 (as claimed): the length of the aggregate pressure vector is the sum of
\* the observation counts of the batches that were appended (every batch of
\* the run exports pressure).
C16_AggregateLengths ==
    Len(obPre) = RowsAppended(log)

\* C17: every step of a run leaves each aggregate array with its former
\* contents as a prefix, and the step that takes in a returned batch puts the
\* batch's vectors at the end, in the batch's order.
C17_AppendOnly ==
    [][ /\ \A i \in 1 .. Len(AppendOrder) : IsPrefix(aggVars[i], aggVars'[i])
        /\ pc = "done" =>
              \A i \in 1 .. Len(AppendOrder) :
                  aggVars'[i] = aggVars[i] \o outputDict[AppendOrder[i]] ]_vars

\* C17 witness: two batches were appended, the second behind a non-empty
\* aggregate.
C17_Witness ==
    /\ Len(log) >= 2
    /\ log[1].status = "appended"
    /\ log[Len(log)].status = "appended"
    /\ pc = "loop"
    /\ Len(obPre) > Len(outputDict["pressure"])
    /\ SubSeq(obPre, Len(obPre) - Len(outputDict["pressure"]) + 1, Len(obPre))
          = outputDict["pressure"]

---------------------------------------------------------------------------
(* The claims on the single checks, the type tables and the queries *)

\* C21: in NC005030/32/34/39 an observation with no other failing signal fails
\* exactly when its coefficient of variation lies outside [0.04, 0.50], a
\* value on a bound passing; in NC005031 the coefficient is not screened: an
\* observation passes exactly when its other signals pass, whatever the
\* coefficient the decoder holds for it.
C21_VariationCheck ==
    (Screened /\ tankName \in GOESTanks) =>
        \A i \in arange(NObs) :
            OtherChecksOK(tankName, i, "variation") =>
                LET c == file[i + 1].cvwd[1]
                IN  IF tankName = "NC005031"
                    THEN i \in idxPass /\ i \notin idxFail
                    ELSE /\ (i \in idxFail) <=> (c < 4 \/ c > 50)
                         /\ (i \in idxPass) <=> (4 <= c /\ c <= 50)

\* C21 witness: an observation with a coefficient of 0.50 passed by a tank that
\* screens on it
C21_Witness ==
    /\ Screened
    /\ tankName \in GOESTanks \ {"NC005031"}
    /\ \E i \in arange(NObs) : file[i + 1].cvwd[1] = 50 /\ i \in idxPass

\* C22: in the batch of NC005044/45/46/67/68/69 an observation whose method
\* code is 5 has preQC = -1 whatever its other signals, and an observation
\* with any other method code and no other failing signal has preQC = +1.
C22_MethodExclusion ==
    (Screened /\ tankName \in JMATanks \cup EUMTanks) =>
        \A i \in arange(NObs) :
            /\ In(outputDict["preQC"], i)
            /\ file[i + 1].wcm = 5 =>
                  /\ i \in idxFail
                  /\ outputDict["preQC"][i + 1] = -1
            /\ (file[i + 1].wcm # 5 /\ OtherChecksOK(tankName, i, "method")) =>
                  /\ i \in idxPass
                  /\ outputDict["preQC"][i + 1] = 1

\* C22 witness: an observation with method code 5 and no other failing signal,
\* returned with preQC = -1
C22_Witness ==
    /\ Screened
    /\ tankName \in JMATanks \cup EUMTanks
    /\ \E i \in arange(NObs) :
          /\ file[i + 1].wcm = 5
          /\ OtherChecksOK(tankName, i, "method")
          /\ outputDict["preQC"][i + 1] = -1

\* the tanks whose observation type depends on the method code through a table
\* of more than one row
MethodTypedTanks == JMATanks \cup EUMTanks \cup {"NC005070", "NC005071"}

\* the type the claim gives to method code m in tank t; TERRA/AQUA have no
\* visible channel and the claim names no type for their code 2
ClaimedType(t, m) ==
    CASE t \in JMATanks -> (IF m = 1 THEN 252 ELSE IF m = 2 THEN 242 ELSE 250)
      [] t \in EUMTanks -> (IF m = 1 THEN 253 ELSE IF m = 2 THEN 243 ELSE 254)
      [] OTHER          -> (IF m = 1 THEN 257 ELSE IF m = 3 THEN 258 ELSE 259)

\* C23: in a returned batch of a method-typed tank, an observation with method
\* code 1, 2, 3 or >= 4 has the tank's IR, visible, cloud-top or displacement
\* type: 252/242/250/250 in NC005044/45/46, 253/243/254/254 in NC005067/68/69,
\* and 257 for 1, 258 for 3, 259 for >= 4 in NC005070/71.
C23_MethodToType ==
    (pc = "done" /\ tankName \in MethodTypedTanks) =>
        \A i \in arange(NObs) :
            LET m == file[i + 1].wcm
            IN  (m >= 1 /\ ~ (tankName \in {"NC005070", "NC005071"} /\ m = 2)) =>
                    /\ In(outputDict["observationType"], i)
                    /\ outputDict["observationType"][i + 1] = ClaimedType(tankName, m)

\* C23 witness: a TERRA/AQUA batch with a cloud-top observation typed 258 or a
\* displacement observation typed 259
C23_Witness ==
    /\ pc = "done"
    /\ tankName \in {"NC005070", "NC005071"}
    /\ \E i \in arange(NObs) :
          \/ file[i + 1].wcm = 3 /\ outputDict["observationType"][i + 1] = 258
          \/ file[i + 1].wcm = 5 /\ outputDict["observationType"][i + 1] = 259

\* C24: the tanks of the list are attempted one at a time and in list order:
\* the k-th finished iteration is that of the k-th tank, a call in progress
\* is that of the tank after the finished ones, and every returned or raised
\* call ends its iteration and moves to the next tank, so that no tank is
\* attempted twice; and every run eventually reaches the report and output
\* stage.
C24_SequentialRun ==
    /\ [](/\ Len(log) = tankIdx
          /\ tankIdx <= Len(tankNameList)
          /\ \A k \in 1 .. Len(log) : log[k].tank = tankNameList[k])
    /\ [](pc \in {"call", "done", "failed"} =>
              /\ tankIdx < Len(tankNameList)
              /\ tankName = tankNameList[tankIdx + 1])
    /\ [][(pc = "done" \/ pc = "failed") => (tankIdx' = tankIdx + 1 /\ pc' = "loop")]_vars
    /\ <>(pc = "finished")

\* C24 witness: a finished run of MaxTanks tanks whose first tank was skipped
\* for a decoder error and whose last tank was appended
C24_Witness ==
    /\ pc = "finished"
    /\ Len(tankNameList) = MaxTanks
    /\ Len(log) = MaxTanks
    /\ log[1].kind = "DataUnavailable"
    /\ log[MaxTanks].status = "appended"

\* C25 (as claimed): an extraction call issues one decoder query, and a call
\* of NC005044/45/46 issues exactly one more, the generatingApplication
\* query, whatever the paths and names of the caller's returnDict.
C25_QueryCount ==
    pc # "call" => queries = (IF tankName \in JMATanks THEN 2 ELSE 1)

\* C26 (as claimed): at every point of the aggregation loop the twelve
\* aggregate arrays have one and the same length.
C26_AggregatesAligned ==
    \A i \in 1 .. Len(aggVars) : \A j \in 1 .. Len(aggVars) :
        Len(aggVars[i]) = Len(aggVars[j])

\* C27: obTyp and obPQC have the same length throughout the run and every
\* element of obPQC is +1 or -1; the report is never cut short by an index
\* error, has one line for each type of obTyp, and on each line the pass count
\* plus the fail count is the number of rows of that type.
C27_ReportConsistent ==
    /\ Len(obTyp) = Len(obPQC)
    /\ \A k \in 1 .. Len(obPQC) : obPQC[k] \in {1, -1}
    /\ pc # "aborted"
    /\ pc = "finished" =>
          /\ {reported[k].typ : k \in 1 .. Len(reported)} = unique(obTyp)
          /\ \A k \in 1 .. Len(reported) :
                /\ reported[k].n = Cardinality({r \in 1 .. Len(obTyp) : obTyp[r] = reported[k].typ})
                /\ reported[k].p + reported[k].f = reported[k].n

\* C27 witness: a report of two types or more, one of them with passing and
\* failing rows
C27_Witness ==
    /\ pc = "finished"
    /\ Len(reported) >= 2
    /\ \E k \in 1 .. Len(reported) : reported[k].p > 0 /\ reported[k].f > 0

\* the vectors a tank's pre_qc checks, by name
CheckedNames(t) ==
    IF t = "NC005031"
    THEN {"pressure", "windSpeed", "zenithAngle", "qualityIndicator", "expectedError"}
    ELSE IF t \in GOESTanks
    THEN {"pressure", "windSpeed", "zenithAngle", "qualityIndicator", "expectedError",
          "coefficientOfVariation"}
    ELSE {"zenithAngle", "qualityIndicator"}

\* index i has no usable value in checked vector v: the vector has no element
\* there, or the element is NaN or the missing value
Unusable(v, i) == ~ In(v, i) \/ v[i + 1] = NaN \/ v[i + 1] = missingValue

\* C28: in the result of a pre_qc, an index at which a vector checked against a
\* range has no element, or holds NaN, or (quality indicator) the missing
\* value, is in idxFail and not in idxPass.
C28_MissingFails ==
    Screened =>
        \A i \in idxPass \cup idxFail :
            ( \/ \E n \in CheckedNames(tankName) :
                    ~ In(qc[n], i) \/ qc[n][i + 1] = NaN
              \/ Unusable(qc.qualityIndicator, i) ) =>
                (i \in idxFail /\ i \notin idxPass)

\* C28 witness: a screened batch with an observation that fails for a NaN alone
\* and an index that fails for having no element in a checked vector
C28_Witness ==
    /\ Screened
    /\ \E i \in idxFail :
          /\ i < NObs
          /\ \E n \in CheckedNames(tankName) :
                /\ In(qc[n], i) /\ qc[n][i + 1] = NaN
                /\ \A m \in CheckedNames(tankName) \ {n} : In(qc[m], i) /\ qc[m][i + 1] # NaN
    /\ \E i \in idxFail : \E n \in CheckedNames(tankName) : ~ In(qc[n], i)

\* what a pre_qc returns, as one value
Outcome(r) == <<r.raised, r.idxPass, r.idxFail>>

\* C29: on the vectors a call handed to its own pre_qc, the pre_qc of
\* NC005044, NC005045, NC005046, NC005067, NC005068 and NC005069 all return
\* the idxPass and idxFail the call got, and so do the pre_qc of NC005030 and
\* NC005039 on the vectors of a call of either.
C29_DuplicatedScreens ==
    Screened =>
        /\ tankName \in JMATanks \cup EUMTanks =>
              LET zen == qc.zenithAngle
                  qin == qc.qualityIndicator
                  wcm == qc.windComputationMethod
              IN  {Outcome(pre_qc_NC005044(zen, qin, wcm)),
                   Outcome(pre_qc_NC005045(zen, qin, wcm)),
                   Outcome(pre_qc_NC005046(zen, qin, wcm)),
                   Outcome(pre_qc_NC005067(zen, qin, wcm)),
                   Outcome(pre_qc_NC005068(zen, qin, wcm)),
                   Outcome(pre_qc_NC005069(zen, qin, wcm))}
                      = {<<FALSE, idxPass, idxFail>>}
        /\ tankName \in {"NC005030", "NC005039"} =>
              {Outcome(pre_qc_NC005030(qc.pressure, qc.windSpeed, qc.zenithAngle,
                                       qc.qualityIndicator, qc.coefficientOfVariation,
                                       qc.expectedError)),
               Outcome(pre_qc_NC005039(qc.pressure, qc.windSpeed, qc.zenithAngle,
                                       qc.qualityIndicator, qc.coefficientOfVariation,
                                       qc.expectedError))}
                  = {<<FALSE, idxPass, idxFail>>}

\* C29 witness: a call of NC005069 that passed one observation at a zenith
\* angle of 68 and failed another, as the pre_qc of NC005044 does on its vectors
C29_Witness ==
    /\ Screened
    /\ tankName = "NC005069"
    /\ \E i \in idxPass : In(qc.zenithAngle, i) /\ qc.zenithAngle[i + 1] = 68
    /\ idxFail # {}
    /\ pre_qc_NC005044(qc.zenithAngle, qc.qualityIndicator,
                       qc.windComputationMethod).idxPass = idxPass

\* the columns of tags that are 102 for every observation
MatchingColumns == {i \in 0 .. 2 : unique(TagColumn(i)) = {qifnTag}}

\* the highest index of a non-empty set of columns
Highest(M) == CHOOSE i \in M : \A j \in M : j <= i

====
